---- MODULE Spec2Model ----
(***************************************************************************)
(* The arbitrage engine of gdax_trader: the currency graph                 *)
(* (currency_graph.py), the per-cycle data feed (strategy.py,              *)
(* gdax_trader.py) and the order life cycle of ArbitrageStrategy           *)
(* (strategies/arbitrage.py).                                              *)
(*                                                                         *)
(* Python values are modelled as follows.  A Decimal is an exact fraction  *)
(* <<n, d>> in lowest terms (d > 0); the values of the model are far from  *)
(* the 28 digits of Decimal's precision.  A dict is the sequence of its    *)
(* keys in insertion order together with a lookup function.  A raised      *)
(* exception is the name of its class, "none" when nothing was raised.     *)
(***************************************************************************)
EXTENDS Integers, Sequences, FiniteSets, TLC

VARIABLES
    current_node,   \* ArbitrageStrategy.current_node
    orders,         \* Strategy.orders / ArbitrageStrategy.orders (one attribute)
    accounts,       \* Strategy.accounts, the snapshot of the cycle
    ticker,         \* Strategy.ticker, the snapshot of the cycle
    pc,             \* "idle", "next" (inside the loop of next) or "crashed"
    idx,            \* position of the loop of next in accounts
    calls,          \* provider calls made by the running / last call of next
    signals,        \* trade signals derived by the running / last call of next
    exc,            \* the exception that left next, "none" if none did
    stubbed,        \* get_currency_balance replaced by a stub (test_arbitrage.py)
    result,         \* what the last call of _run_iteration returned
    last,           \* what the last loop iteration of next did (observation)
    entry,          \* how the running call of next was entered (observation)
    trader,         \* GDAXTrader.run / _run_iteration seen fetch by fetch
    cg,             \* a CurrencyGraph and one find_arbitrage_path seen step by step
    unit,           \* one method of the strategy called on its own: arguments, result
    provider        \* what the provider holds for the order the strategy tracks

strategy_vars ==
    <<current_node, orders, accounts, ticker, pc, idx, calls, signals, exc,
      stubbed, result, last, entry>>

vars == <<strategy_vars, trader, cg, unit, provider>>

-----------------------------------------------------------------------------
(* Bounds of the model *)

MaxAccounts == 2

-----------------------------------------------------------------------------
(* Decimal arithmetic *)

RECURSIVE GCD(_, _)
GCD(a, b) == IF b = 0 THEN a ELSE GCD(b, a % b)

Dec(n, d) == LET g == GCD(n, d) IN <<n \div g, d \div g>>

DecZero == <<0, 1>>
DecOne == <<1, 1>>

\* a / b, b not zero; the denominator of the result is positive
DecDiv(a, b) ==
    IF b[1] < 0 THEN Dec(0 - (a[1] * b[2]), a[2] * (0 - b[1]))
    ELSE Dec(a[1] * b[2], a[2] * b[1])

\* a < b
DecLess(a, b) == a[1] * b[2] < b[1] * a[2]

\* Decimal(text): the numerals of the model; any other text is not a number
Numerals == {"1", "1.002", "2"}

\* the texts Decimal parses: the numerals, zero, a negative and a fraction
DecimalTexts == Numerals \cup {"0", "-1", "0.5"}

ParseDecimal(text) ==
    CASE text = "0" -> DecZero
      [] text = "1" -> DecOne
      [] text = "1.002" -> Dec(501, 500)
      [] text = "2" -> Dec(2, 1)
      [] text = "-1" -> <<0 - 1, 1>>
      [] text = "0.5" -> Dec(1, 2)

Missing == "<missing>"

-----------------------------------------------------------------------------
(* Currencies, products, nodes *)

Currencies == {"USD", "BTC", "ETH"}

START_NODE == "USD"
TARGET_NODE == "USD"

BID_KEY == "bid"
ASK_KEY == "ask"

BUY_ORDER == 1
SELL_ORDER == 2

\* INDEX_FORMAT.format(currency, side): a node key
NodeKey(currency, side) == [cur |-> currency, side |-> side]

get_bid(currency) == NodeKey(currency, BID_KEY)
get_ask(currency) == NodeKey(currency, ASK_KEY)

\* the value -1 that marks "no parent"; it is no node key
NoParent == [cur |-> "-1", side |-> "-1"]

\* the currencies a graph may hold: those of the engine and one more
GraphCurrencies == Currencies \cup {"LTC"}

AllNodes == {NodeKey(c, s) : c \in GraphCurrencies, s \in {BID_KEY, ASK_KEY}}

get_currency(key) == key.cur
is_bid(key) == key.side = BID_KEY
is_ask(key) == key.side = ASK_KEY

\* product.split('-')
get_base(product) ==
    CASE product = "BTC-USD" -> "BTC"
      [] product = "ETH-BTC" -> "ETH"
      [] product = "ETH-USD" -> "ETH"
      [] product = "USD-BTC" -> "USD"
      [] product = "BTC-ETH" -> "BTC"
      [] product = "USD-ETH" -> "USD"
      [] product = "LTC-USD" -> "LTC"
      [] OTHER -> "None"

get_quote(product) ==
    CASE product = "BTC-USD" -> "USD"
      [] product = "ETH-BTC" -> "BTC"
      [] product = "ETH-USD" -> "USD"
      [] product = "USD-BTC" -> "BTC"
      [] product = "BTC-ETH" -> "ETH"
      [] product = "USD-ETH" -> "ETH"
      [] product = "LTC-USD" -> "USD"
      [] OTHER -> "None"

ProductNames ==
    {"BTC-USD", "ETH-BTC", "ETH-USD", "USD-BTC", "BTC-ETH", "USD-ETH", "LTC-USD"}

\* '{}-{}'.format(base, quote)
PairName(base, quote) ==
    IF \E p \in ProductNames : get_base(p) = base /\ get_quote(p) = quote
    THEN CHOOSE p \in ProductNames : get_base(p) = base /\ get_quote(p) = quote
    ELSE "None-None"

\* GDAXTrader.products, in the order of add_product
Products == <<"ETH-BTC", "BTC-USD">>

-----------------------------------------------------------------------------
(* CurrencyGraph *)

\* CurrencyGraph.__init__
EmptyGraph ==
    [currency_pairs |-> <<>>,
     keys |-> <<>>,
     edges |-> [n \in AllNodes |-> <<>>]]

InSeq(x, s) == \E i \in 1..Len(s) : s[i] = x

\* d[key] = w on the dict of the edges of one node
EdgeSet(es, key, w) ==
    IF \E i \in 1..Len(es) : es[i].to = key
    THEN [i \in 1..Len(es) |-> IF es[i].to = key THEN [to |-> key, w |-> w] ELSE es[i]]
    ELSE Append(es, [to |-> key, w |-> w])

\* try: graph[k1][k2] = w  except KeyError: graph[k1] = {k2: w}
GraphSet(g, k1, k2, w) ==
    IF InSeq(k1, g.keys)
    THEN [g EXCEPT !.edges[k1] = EdgeSet(@, k2, w)]
    ELSE [g EXCEPT !.keys = Append(@, k1),
                   !.edges[k1] = <<[to |-> k2, w |-> w]>>]

\* add_currency_pair without the reciprocal of line 75
AddCurrencyPairPlainAsk(g, base, quote, bid, ask) ==
    LET g0 == [g EXCEPT !.currency_pairs = Append(@, [base |-> base, quote |-> quote])]
        g1 == GraphSet(g0, NodeKey(quote, BID_KEY), NodeKey(base, ASK_KEY), bid)
        g2 == GraphSet(g1, NodeKey(base, BID_KEY), NodeKey(quote, ASK_KEY), ask)
        g3 == GraphSet(g2, NodeKey(quote, ASK_KEY), NodeKey(quote, BID_KEY), DecOne)
    IN  GraphSet(g3, NodeKey(base, ASK_KEY), NodeKey(base, BID_KEY), DecOne)

\* add_currency_pair without the edges of lines 86-96
AddCurrencyPairNoUnitEdges(g, base, quote, bid, ask) ==
    LET g0 == [g EXCEPT !.currency_pairs = Append(@, [base |-> base, quote |-> quote])]
        g1 == GraphSet(g0, NodeKey(quote, BID_KEY), NodeKey(base, ASK_KEY), bid)
    IN  GraphSet(g1, NodeKey(base, BID_KEY), NodeKey(quote, ASK_KEY),
                 DecDiv(DecOne, ask))

add_currency_pair(g, base, quote, bid, ask) ==
    LET quote_bid == NodeKey(quote, BID_KEY)
        base_ask == NodeKey(base, ASK_KEY)
        quote_ask == NodeKey(quote, ASK_KEY)
        base_bid == NodeKey(base, BID_KEY)
        g0 == [g EXCEPT !.currency_pairs = Append(@, [base |-> base, quote |-> quote])]
        g1 == GraphSet(g0, quote_bid, base_ask, bid)
        converted_ask == DecDiv(DecOne, ask)
        g2 == GraphSet(g1, base_bid, quote_ask, converted_ask)
        g3 == GraphSet(g2, quote_ask, quote_bid, DecOne)
    IN  GraphSet(g3, base_ask, base_bid, DecOne)

MAX_PATH_LENGTH == 16

RECURSIVE GetPathLoop(_, _, _, _, _)
GetPathLoop(start, parents, path, p, i) ==
    IF p # start /\ p # NoParent /\ i < MAX_PATH_LENGTH
    THEN GetPathLoop(start, parents, <<parents[p]>> \o path, parents[p], i + 1)
    ELSE path

_get_path(start, target, parents) ==
    GetPathLoop(start, parents, <<target>>, target, 0)

\* RelaxEdge without the test of line 123
RelaxEdgeUnguarded(start, node, edge, distance, parents) ==
    LET next_node == edge.to
        new_distance == DecDiv(distance[node], edge.w)
        out(e, d, p) == [exc |-> e, guarded |-> FALSE, distance |-> d, parents |-> p]
    IN  IF edge.w = DecZero THEN out("DivisionByZero", distance, parents)
        ELSE IF DecLess(distance[next_node], new_distance)
        THEN out("none", [distance EXCEPT ![next_node] = new_distance],
                 [parents EXCEPT ![next_node] = node])
        ELSE out("none", distance, parents)

\* RelaxEdge with a test of line 123 that only keeps the search from going
\* straight back to the parent of the node
RelaxEdgeSparingParent(start, node, edge, distance, parents) ==
    LET next_node == edge.to
        out(e, guarded, d, p) ==
            [exc |-> e, guarded |-> guarded, distance |-> d, parents |-> p]
    IN  IF next_node \in {node, parents[node]}
        THEN out("none", TRUE, distance, parents)
        ELSE IF edge.w = DecZero
        THEN out("DivisionByZero", FALSE, distance, parents)
        ELSE LET new_distance == DecDiv(distance[node], edge.w)
             IN  IF DecLess(distance[next_node], new_distance)
                 THEN out("none", FALSE,
                          [distance EXCEPT ![next_node] = new_distance],
                          [parents EXCEPT ![next_node] = node])
                 ELSE out("none", FALSE, distance, parents)

\* RelaxEdge with <= for the < of line 126: a tie replaces the parent
RelaxEdgeOnTies(start, node, edge, distance, parents) ==
    LET next_node == edge.to
        path == _get_path(start, node, parents)
        out(e, guarded, d, p) ==
            [exc |-> e, guarded |-> guarded, distance |-> d, parents |-> p]
    IN  IF InSeq(next_node, path) THEN out("none", TRUE, distance, parents)
        ELSE IF edge.w = DecZero
        THEN out("DivisionByZero", FALSE, distance, parents)
        ELSE LET new_distance == DecDiv(distance[node], edge.w)
             IN  IF ~DecLess(new_distance, distance[next_node])
                 THEN out("none", FALSE,
                          [distance EXCEPT ![next_node] = new_distance],
                          [parents EXCEPT ![next_node] = node])
                 ELSE out("none", FALSE, distance, parents)

\* lines 121-128 for one edge of the node: guarded tells that the edge leads
\* to a node of the path from start to the node; the division of line 124
\* raises on a weight of zero
RelaxEdge(start, node, edge, distance, parents) ==
    LET next_node == edge.to
        path == _get_path(start, node, parents)
        out(e, guarded, d, p) ==
            [exc |-> e, guarded |-> guarded, distance |-> d, parents |-> p]
    IN  IF InSeq(next_node, path) THEN out("none", TRUE, distance, parents)
        ELSE IF edge.w = DecZero
        THEN out("DivisionByZero", FALSE, distance, parents)
        ELSE LET new_distance == DecDiv(distance[node], edge.w)
             IN  IF DecLess(distance[next_node], new_distance)
                 THEN out("none", FALSE,
                          [distance EXCEPT ![next_node] = new_distance],
                          [parents EXCEPT ![next_node] = node])
                 ELSE out("none", FALSE, distance, parents)

\* the for loop over edges.items() of one node, from edge i on
RECURSIVE Relax(_, _, _, _, _, _)
Relax(start, node, es, i, distance, parents) ==
    IF i > Len(es) THEN [exc |-> "none", distance |-> distance, parents |-> parents]
    ELSE LET r == RelaxEdge(start, node, es[i], distance, parents)
         IN  IF r.exc # "none"
             THEN [exc |-> r.exc, distance |-> distance, parents |-> parents]
             ELSE Relax(start, node, es, i + 1, r.distance, r.parents)

\* the selection loop: the first unvisited key of strictly largest distance
RECURSIVE SelectNode(_, _, _, _, _, _)
SelectNode(keys, i, visited, distance, node, dist) ==
    IF i > Len(keys) THEN node
    ELSE IF keys[i] \notin visited /\ DecLess(dist, distance[keys[i]])
         THEN SelectNode(keys, i + 1, visited, distance, keys[i], distance[keys[i]])
         ELSE SelectNode(keys, i + 1, visited, distance, node, dist)

\* the while loop of find_arbitrage_path
RECURSIVE Search(_, _, _, _, _, _)
Search(g, start, node, visited, distance, parents) ==
    IF node \in visited
    THEN [exc |-> "none", distance |-> distance, parents |-> parents]
    ELSE LET v == visited \cup {node}
             r == Relax(start, node, g.edges[node], 1, distance, parents)
             n == SelectNode(g.keys, 1, v, r.distance, start, DecZero)
         IN  IF r.exc # "none" THEN r
             ELSE Search(g, start, n, v, r.distance, r.parents)

\* result: the exception raised ("none": none), the path and the distance
find_arbitrage_path(g, start, target) ==
    IF ~InSeq(start, g.keys) \/ ~InSeq(target, g.keys)
    THEN [exc |-> "KeyError", path |-> <<>>, distance |-> DecZero]
    ELSE LET distance0 == [n \in AllNodes |-> IF n = start THEN DecOne ELSE DecZero]
             parents0 == [n \in AllNodes |-> NoParent]
             r == Search(g, start, start, {}, distance0, parents0)
         IN  IF r.exc # "none"
             THEN [exc |-> r.exc, path |-> <<>>, distance |-> DecZero]
             ELSE [exc |-> "none",
                   path |-> _get_path(start, target, r.parents),
                   distance |-> r.distance[target]]

\* the first (base, quote) added that holds both currencies
RECURSIVE GetCurrencyPairLoop(_, _, _, _)
GetCurrencyPairLoop(pairs, i, currency1, currency2) ==
    IF i > Len(pairs) THEN [base |-> "None", quote |-> "None"]
    ELSE IF pairs[i].base \in {currency1, currency2}
            /\ pairs[i].quote \in {currency1, currency2}
         THEN pairs[i]
         ELSE GetCurrencyPairLoop(pairs, i + 1, currency1, currency2)

\* get_currency_pair that keeps the last pair that matches
GetCurrencyPairLast(g, key1, key2) ==
    LET pairs == g.currency_pairs
        rev == [i \in 1..Len(pairs) |-> pairs[Len(pairs) + 1 - i]]
    IN  GetCurrencyPairLoop(rev, 1, get_currency(key1), get_currency(key2))

get_currency_pair(g, key1, key2) ==
    GetCurrencyPairLoop(g.currency_pairs, 1, get_currency(key1), get_currency(key2))

\* index of the node the loop of get_next_currency_pair stops at; 0 when the
\* loop meets the value -1 before a bid node (is_bid raises AttributeError)
RECURSIVE NextPairIndex(_, _)
NextPairIndex(path, i) ==
    IF path[i] = NoParent THEN 0
    ELSE IF is_bid(path[i]) \/ i = Len(path) - 1 THEN i
         ELSE NextPairIndex(path, i + 1)

get_next_currency_pair(g, path) ==
    IF Len(path) < 2
    THEN [exc |-> "UnboundLocalError", base |-> "None", quote |-> "None",
          current_node |-> NoParent]
    ELSE LET i == NextPairIndex(path, 1) IN
         IF i = 0 \/ path[i + 1] = NoParent
         THEN [exc |-> "AttributeError", base |-> "None", quote |-> "None",
               current_node |-> NoParent]
         ELSE LET p == get_currency_pair(g, path[i], path[i + 1])
              IN  [exc |-> "none", base |-> p.base, quote |-> p.quote,
                   current_node |-> path[i]]

\* signal 0: the method returned False instead of a tuple
get_next_signal(g, path) ==
    LET r == get_next_currency_pair(g, path) IN
    IF r.exc # "none" THEN [exc |-> r.exc, signal |-> 0, product |-> "None-None"]
    ELSE LET currency == get_currency(r.current_node)
             currency_pair == PairName(r.base, r.quote)
         IN  IF r.quote = currency
             THEN [exc |-> "none", signal |-> BUY_ORDER, product |-> currency_pair]
             ELSE IF r.base = currency
             THEN [exc |-> "none", signal |-> SELL_ORDER, product |-> currency_pair]
             ELSE [exc |-> "none", signal |-> 0, product |-> "None-None"]

-----------------------------------------------------------------------------
(* Orders: one entry of the dict ArbitrageStrategy.orders *)

\* kind "nokey": the dict has no such key; "none": the value None;
\* "order": a payload of the provider, a field absent from it being Missing
Entry(kind, id, order_id, product_id, price, created_at, status, settled, done_reason, message) ==
    [kind |-> kind, id |-> id, order_id |-> order_id, product_id |-> product_id,
     price |-> price, created_at |-> created_at, status |-> status,
     settled |-> settled, done_reason |-> done_reason, message |-> message]

NoKeyEntry ==
    Entry("nokey", Missing, Missing, Missing, Missing, Missing, Missing, Missing,
          Missing, FALSE)

NoneEntry == [NoKeyEntry EXCEPT !.kind = "none"]

\* an order as the provider reports it while it is open
OpenOrder(id, product, price) ==
    Entry("order", id, Missing, product, price, "ok", "open", "false", Missing, FALSE)

\* an error payload: {'message': ...}
ErrorPayload == [NoKeyEntry EXCEPT !.kind = "order", !.message = TRUE]

\* self.orders is a dict (list = FALSE) or the list of the provider's orders
\* feed (list = TRUE), which no currency indexes
DictOrders(map) == [list |-> FALSE, map |-> map]
EmptyDict == DictOrders([c \in Currencies |-> NoKeyEntry])
ListOrders == [list |-> TRUE, map |-> [c \in Currencies |-> NoKeyEntry]]

\* self.orders[node][field]: the exception raised, or the value
OrderField(os, node, field) ==
    IF os.list THEN [exc |-> "TypeError", val |-> Missing]
    ELSE IF os.map[node].kind = "nokey" THEN [exc |-> "KeyError", val |-> Missing]
    ELSE IF os.map[node].kind = "none" THEN [exc |-> "TypeError", val |-> Missing]
    ELSE IF os.map[node][field] = Missing THEN [exc |-> "KeyError", val |-> Missing]
    ELSE [exc |-> "none", val |-> os.map[node][field]]

\* an order is recorded (a value other than None) for the node
Recorded(os, node) == ~os.list /\ os.map[node].kind = "order"

-----------------------------------------------------------------------------
(* The provider: what its calls may answer *)

OrderIds == {"o1", "o2"}

\* get_order(id) for the recorded order o: ConnectionError (fail) or a payload
GetOrderPayloads(o) ==
    { [o EXCEPT !.status = "open", !.settled = "false"],
      [o EXCEPT !.status = "open", !.settled = "false", !.order_id = o.id],
      [o EXCEPT !.status = "open", !.settled = "true"],
      [o EXCEPT !.status = "done", !.settled = "false", !.done_reason = "filled"],
      [o EXCEPT !.status = "done", !.settled = "true", !.done_reason = "filled"],
      [o EXCEPT !.status = "done", !.settled = "false", !.done_reason = "cancelled"],
      [o EXCEPT !.status = "rejected", !.settled = "false"],
      [NoKeyEntry EXCEPT !.kind = "order", !.id = o.id],
      ErrorPayload }

\* a provider call that fails raises the ConnectionError of requests, which
\* GDAXTrader catches (gdax_trader.py, line 4), or the builtin ConnectionError,
\* which the tests of the strategy raise
BuiltinError == "ConnectionError"
RequestsError == "requests.ConnectionError"
Failures == {BuiltinError, RequestsError}

GetOrderAnswers(o) ==
    {[fail |-> TRUE, raised |-> e, payload |-> NoneEntry] : e \in Failures}
        \cup {[fail |-> FALSE, raised |-> "none", payload |-> p] :
                  p \in GetOrderPayloads(o)}

\* str(price) of a Decimal of the model
DecText(d) ==
    CASE d = DecOne -> "1"
      [] d = Dec(501, 500) -> "1.002"
      [] d = Dec(2, 1) -> "2"
      [] OTHER -> "?"

\* get_orders(): the list the provider's client returns, or a mapping
FeedOrders ==
    { ListOrders, EmptyDict }
        \cup { DictOrders([c \in Currencies |-> IF c = "USD" THEN o ELSE NoKeyEntry]) :
                  o \in { OpenOrder("o1", "BTC-USD", "1"),
                          OpenOrder("o1", "BTC-USD", "2"),
                          OpenOrder("o2", "ETH-BTC", "1") } }

\* get_accounts(): at most one account per currency, or a record without fields
Account(currency, balance) == [currency |-> currency, balance |-> balance]

AccountRecords ==
    { Account("USD", "1"), Account("USD", "0"), Account("ETH", "1"),
      Account("BTC", "abc"), Account(Missing, Missing) }

RECURSIVE SeqsUpTo(_, _)
SeqsUpTo(S, n) ==
    IF n = 0 THEN {<<>>}
    ELSE LET shorter == SeqsUpTo(S, n - 1)
         IN  shorter \cup {Append(s, x) : s \in shorter, x \in S}

AccountFeeds ==
    {a \in SeqsUpTo(AccountRecords, MaxAccounts) :
        \A i, j \in 1..Len(a) :
            (i # j /\ a[i].currency # Missing) => a[i].currency # a[j].currency}

\* get_product_ticker(product) for every product
Tick(bid, ask) == [bid |-> bid, ask |-> ask]

TickerFeeds ==
    {[p \in {"ETH-BTC", "BTC-USD"} |->
        IF p = "ETH-BTC" THEN Tick("1", "2") ELSE Tick("1", a)]
        : a \in {"1", "1.002", "2"}}
    \cup {[p \in {"ETH-BTC", "BTC-USD"} |->
        IF p = "ETH-BTC" THEN Tick("1", "2") ELSE Tick("2", Missing)],
          [p \in {"ETH-BTC", "BTC-USD"} |->
        IF p = "ETH-BTC" THEN Tick("abc", "1") ELSE Tick("1", "2")]}

-----------------------------------------------------------------------------
(* Strategy *)

\* float(text) succeeds on the numerals
IsNumber(text) == text \in DecimalTexts

\* get_currency_balance: the float of the first account of the currency whose
\* balance converts, None without one; the stub of the tests returns a mock
RECURSIVE BalanceLoop(_, _, _)
BalanceLoop(accs, i, currency) ==
    IF i > Len(accs) THEN [type |-> "None", val |-> DecZero]
    ELSE IF accs[i].currency = currency /\ IsNumber(accs[i].balance)
         THEN [type |-> "float", val |-> ParseDecimal(accs[i].balance)]
         ELSE BalanceLoop(accs, i + 1, currency)

\* get_currency_balance going through the accounts from the last to the first
GetCurrencyBalanceFromLast(accs, currency, stub) ==
    IF stub THEN [type |-> "mock", val |-> DecZero]
    ELSE BalanceLoop([i \in 1..Len(accs) |-> accs[Len(accs) + 1 - i]], 1, currency)

get_currency_balance(accs, currency, stub) ==
    IF stub THEN [type |-> "mock", val |-> DecZero]
    ELSE BalanceLoop(accs, 1, currency)

-----------------------------------------------------------------------------
(* ArbitrageStrategy *)

\* THRESHOLD = 1.002: the float literal lies 1.8e-18 above 1.002, and no
\* spread of the model falls between the two
THRESHOLD == Dec(501, 500)

\* a provider call as next logs it; had: an order was recorded for the held
\* currency when the call was made; size: what buy or sell got as the size
Call(op, node, id, product, price, had) ==
    [op |-> op, node |-> node, id |-> id, product |-> product, price |-> price,
     had |-> had, size |-> [type |-> "none", val |-> DecZero]]

\* Terminal with "or" for the "and" of line 127: done alone, or settled alone,
\* ends the tracking
TerminalDoneOrSettled(order) ==
    \/ order.message
    \/ order.done_reason = "cancelled"
    \/ order.status = "rejected"
    \/ order.status = "done"
    \/ order.settled = "true"

\* Terminal without the cancelled test of lines 101-104
TerminalWithoutCancelled(order) ==
    \/ order.message
    \/ order.status = "rejected"
    \/ (order.status = "done" /\ order.settled = "true")

\* lines 100-127 of _track_order: the payload ends the order's tracking
Terminal(order) ==
    LET cancelled == order.done_reason = "cancelled"
        rejected == order.status = "rejected"
        is_done == order.status = "done"
        is_settled == order.settled = "true"
        order_error == order.message
    IN  order_error \/ cancelled \/ rejected \/ (is_done /\ is_settled)

\* _track_order clearing the order when get_order raises ConnectionError
TrackOrderClearingOnFailure(os, node, ans) ==
    LET order_id == OrderField(os, node, "id")
        out(e, o, ret, how, cs) ==
            [exc |-> e, orders |-> o, ret |-> ret, how |-> how, calls |-> cs]
    IN
    IF order_id.exc # "none" THEN out("none", os, FALSE, "noid", <<>>)
    ELSE LET c == <<Call("get_order", node, order_id.val, Missing, Missing, TRUE)>>
             cleared == [os EXCEPT !.map[node] = NoneEntry]
         IN
         IF ans.fail /\ ans.raised # BuiltinError
         THEN out(ans.raised, cleared, FALSE, "escaped", c)
         ELSE IF ans.fail THEN out("none", cleared, FALSE, "fail", c)
         ELSE IF Terminal(ans.payload) THEN out("none", cleared, FALSE, "cleared", c)
         ELSE out("none", [os EXCEPT !.map[node] = ans.payload], TRUE, "updated", c)

\* _track_order returning True without line 132: the recorded order is not
\* replaced by the payload
TrackOrderKeepingRecord(os, node, ans) ==
    LET order_id == OrderField(os, node, "id")
        out(e, o, ret, how, cs) ==
            [exc |-> e, orders |-> o, ret |-> ret, how |-> how, calls |-> cs]
    IN
    IF order_id.exc # "none" THEN out("none", os, FALSE, "noid", <<>>)
    ELSE LET c == <<Call("get_order", node, order_id.val, Missing, Missing, TRUE)>>
             cleared == [os EXCEPT !.map[node] = NoneEntry]
         IN
         IF ans.fail /\ ans.raised # BuiltinError
         THEN out(ans.raised, os, FALSE, "escaped", c)
         ELSE IF ans.fail THEN out("none", os, FALSE, "fail", c)
         ELSE IF Terminal(ans.payload) THEN out("none", cleared, FALSE, "cleared", c)
         ELSE out("none", os, TRUE, "updated", c)

\* ans: the answer of get_order, used when the order has an id; line 96
\* catches the builtin ConnectionError only, any other exception leaves
\* _track_order (exc)
_track_order(os, node, ans) ==
    LET order_id == OrderField(os, node, "id")
        out(e, o, ret, how, cs) ==
            [exc |-> e, orders |-> o, ret |-> ret, how |-> how, calls |-> cs]
    IN
    IF order_id.exc # "none" THEN out("none", os, FALSE, "noid", <<>>)
    ELSE LET c == <<Call("get_order", node, order_id.val, Missing, Missing, TRUE)>>
             cleared == [os EXCEPT !.map[node] = NoneEntry]
         IN
         IF ans.fail /\ ans.raised # BuiltinError
         THEN out(ans.raised, os, FALSE, "escaped", c)
         ELSE IF ans.fail THEN out("none", os, FALSE, "fail", c)
         ELSE IF Terminal(ans.payload) THEN out("none", cleared, FALSE, "cleared", c)
         ELSE out("none", [os EXCEPT !.map[node] = ans.payload], TRUE, "updated", c)

\* BuildLoop leaving the loop at the bad product (break for the return None
\* of line 157): the graph holds the pairs before it
RECURSIVE BuildLoopPartial(_, _, _)
BuildLoopPartial(tk, i, g) ==
    IF i > Len(Products) THEN [none |-> FALSE, graph |-> g]
    ELSE LET product == Products[i]
         IN  IF product \notin DOMAIN tk
                \/ tk[product].bid \notin DecimalTexts
                \/ tk[product].ask \notin DecimalTexts
             THEN [none |-> FALSE, graph |-> g]
             ELSE BuildLoopPartial(tk, i + 1,
                      add_currency_pair(g, get_base(product), get_quote(product),
                          ParseDecimal(tk[product].bid), ParseDecimal(tk[product].ask)))

\* None when a bid or ask of a product is missing or no number
RECURSIVE BuildLoop(_, _, _)
BuildLoop(tk, i, g) ==
    IF i > Len(Products) THEN [none |-> FALSE, graph |-> g]
    ELSE LET product == Products[i]
             base == get_base(product)
             quote == get_quote(product)
         IN  IF product \notin DOMAIN tk
                \/ tk[product].bid \notin DecimalTexts
                \/ tk[product].ask \notin DecimalTexts
             THEN [none |-> TRUE, graph |-> EmptyGraph]
             ELSE BuildLoop(tk, i + 1,
                      add_currency_pair(g, base, quote,
                          ParseDecimal(tk[product].bid), ParseDecimal(tk[product].ask)))

_build_currency_graph(tk) == BuildLoop(tk, 1, EmptyGraph)

\* _get_currency_path without the except AttributeError of line 182
GetCurrencyPathUnchecked(built, node) ==
    IF built.none
    THEN [exc |-> "AttributeError", path |-> <<>>, distance |-> DecZero]
    ELSE find_arbitrage_path(built.graph, get_bid(node), get_ask(TARGET_NODE))

_get_currency_path(built, node) ==
    IF built.none
    THEN [exc |-> "MissingCurrencyGraph", path |-> <<>>, distance |-> DecZero]
    ELSE find_arbitrage_path(built.graph, get_bid(node), get_ask(TARGET_NODE))

\* line 207, get_next_signal(path) + (distance,): a TypeError when
\* get_next_signal returned False
SignalWithDistance(g, found) ==
    LET s == get_next_signal(g, found.path)
        raised(e) == [exc |-> e, signal |-> 0, product |-> "None-None",
                      distance |-> DecZero]
    IN  IF s.exc # "none" THEN raised(s.exc)
        ELSE IF s.signal = 0 THEN raised("TypeError")
        ELSE [exc |-> "none", signal |-> s.signal, product |-> s.product,
              distance |-> found.distance]

_get_trade_signal(tk, node) ==
    LET built == _build_currency_graph(tk)
        found == _get_currency_path(built, node)
    IN  IF found.exc # "none"
        THEN [exc |-> found.exc, signal |-> 0, product |-> "None-None",
              distance |-> DecZero]
        ELSE SignalWithDistance(built.graph, found)

\* _get_market_price reading the ask for a Buy and the bid for a Sell
GetMarketPriceSwapped(os, node, signal, product, tk) ==
    LET recorded == OrderField(os, node, "price")
        market_price ==
            IF recorded.exc = "none"
            THEN [type |-> "str", val |-> DecZero, text |-> recorded.val]
            ELSE [type |-> "None", val |-> DecZero, text |-> Missing]
        text ==
            IF product \notin DOMAIN tk THEN Missing
            ELSE IF signal = BUY_ORDER THEN tk[product].ask ELSE tk[product].bid
    IN  IF signal \in {BUY_ORDER, SELL_ORDER} /\ text \in DecimalTexts
        THEN [type |-> "Decimal", val |-> ParseDecimal(text), text |-> text]
        ELSE market_price

\* type "Decimal": a ticker price; "str": the recorded order's price as the
\* provider gave it; "None"
_get_market_price(os, node, signal, product, tk) ==
    LET recorded == OrderField(os, node, "price")
        market_price ==
            IF recorded.exc = "none"
            THEN [type |-> "str", val |-> DecZero, text |-> recorded.val]
            ELSE [type |-> "None", val |-> DecZero, text |-> Missing]
        text ==
            IF product \notin DOMAIN tk THEN Missing
            ELSE IF signal = BUY_ORDER THEN tk[product].bid ELSE tk[product].ask
    IN  IF signal \in {BUY_ORDER, SELL_ORDER} /\ text \in DecimalTexts
        THEN [type |-> "Decimal", val |-> ParseDecimal(text), text |-> text]
        ELSE market_price

\* _cancel_order clearing the recorded order once the cancel is acknowledged
CancelOrderClearing(os, node, raised) ==
    LET order_id == OrderField(os, node, "order_id")
        out(e, o, ret, how, cs) ==
            [exc |-> e, orders |-> o, ret |-> ret, how |-> how, calls |-> cs]
    IN
    IF order_id.exc # "none" THEN out("none", os, FALSE, "noid", <<>>)
    ELSE LET c == <<Call("cancel_order", node, order_id.val, Missing, Missing, TRUE)>>
         IN  IF raised = "none"
             THEN out("none", [os EXCEPT !.map[node] = NoneEntry], TRUE, "ok", c)
             ELSE IF raised = BuiltinError THEN out("none", os, FALSE, "fail", c)
             ELSE out(raised, os, FALSE, "escaped", c)

\* raised: what cancel_order raises, "none" when it returns; line 251 catches
\* the builtin ConnectionError only
_cancel_order(os, node, raised) ==
    LET order_id == OrderField(os, node, "order_id")
        out(e, o, ret, how, cs) ==
            [exc |-> e, orders |-> o, ret |-> ret, how |-> how, calls |-> cs]
    IN
    IF order_id.exc # "none" THEN out("none", os, FALSE, "noid", <<>>)
    ELSE LET c == <<Call("cancel_order", node, order_id.val, Missing, Missing, TRUE)>>
         IN  IF raised = "none" THEN out("none", os, TRUE, "ok", c)
             ELSE IF raised = BuiltinError THEN out("none", os, FALSE, "fail", c)
             ELSE out(raised, os, FALSE, "escaped", c)

\* lines 277 and 291: the recorded order is for another product than the
\* derived one, or at another price than the market price
NeedsChange(os, node, signal, product, tk) ==
    LET product_id == OrderField(os, node, "product_id")
        price == OrderField(os, node, "price")
        market_price == _get_market_price(os, node, signal, product, tk)
        same_product == product_id.val = product
        same_price == market_price.type = "Decimal"
                      /\ market_price.val = ParseDecimal(price.val)
    IN  ~same_product \/ ~same_price

\* elapsed: more than a minute has passed since created_at
_update_pending_order(os, node, signal, product, tk, elapsed, raised) ==
    LET product_id == OrderField(os, node, "product_id")
        price == OrderField(os, node, "price")
        created_at == OrderField(os, node, "created_at")
        out(e, o, ret, how, cs) ==
            [exc |-> e, orders |-> o, ret |-> ret, how |-> how, calls |-> cs]
    IN  IF product_id.exc # "none" \/ price.exc # "none" \/ ~IsNumber(price.val)
           \/ created_at.exc # "none"
        THEN out("none", os, FALSE, "noorder", <<>>)
        ELSE LET can_be_cancelled == elapsed IN
             IF can_be_cancelled /\ NeedsChange(os, node, signal, product, tk)
             THEN LET c == _cancel_order(os, node, raised)
                  IN  out(c.exc, c.orders, TRUE, c.how, c.calls)
             ELSE out("none", os, TRUE,
                      IF can_be_cancelled THEN "unchanged" ELSE "young", <<>>)

\* the order the provider returns for an accepted buy or sell
Accepted(id, product, price) ==
    [OpenOrder(id, product, DecText(price)) EXCEPT !.status = "pending"]

\* buy / sell raise a failure, answer a rejection payload ("reject") or a new
\* order with the id given
SubmitAnswerKinds == Failures \cup {"reject"} \cup OrderIds

\* RecordAnswer without the test for a message
RecordAnswerAlways(os, node, order) == [os EXCEPT !.map[node] = order]

\* RecordAnswer keyed by the default start currency, not the held one
RecordAnswerForStartNode(os, node, order) ==
    IF order.message THEN os ELSE [os EXCEPT !.map[START_NODE] = order]

\* lines 338-339 and 358-359: the answer is recorded for the held currency
\* unless it holds a message
RecordAnswer(os, node, order) ==
    IF order.message THEN os ELSE [os EXCEPT !.map[node] = order]

\* lines 329 and 349: the balance divided by the price for a buy, multiplied
\* by it for a sell; a float or None with a Decimal raises TypeError, the
\* mock of the tests yields a mock
OrderSize(op, balance, market_price) ==
    IF balance.type = "mock" THEN [type |-> "mock", val |-> DecZero]
    ELSE [type |-> "TypeError", val |-> DecZero]

\* lines 323-361: the size, the call of buy or sell and the recording
Submit(os, node, op, currency, product, market_price, accs, stub, ans) ==
    LET balance == get_currency_balance(accs, currency, stub)
        size == OrderSize(op, balance, market_price)
        c == <<[Call(op, node, Missing, product, DecText(market_price),
                     Recorded(os, node)) EXCEPT !.size = size]>>
    IN  IF size.type = "TypeError"
        THEN [exc |-> "TypeError", ret |-> FALSE, how |-> "size", orders |-> os,
              calls |-> <<>>, answer |-> NoKeyEntry]
        ELSE IF ans = BuiltinError
        THEN [exc |-> "none", ret |-> FALSE, how |-> "fail", orders |-> os,
              calls |-> c, answer |-> NoKeyEntry]
        ELSE IF ans \in Failures
        THEN [exc |-> ans, ret |-> FALSE, how |-> "escaped", orders |-> os,
              calls |-> c, answer |-> NoKeyEntry]
        ELSE LET order == IF ans = "reject" THEN ErrorPayload
                          ELSE Accepted(ans, product, market_price)
             IN  [exc |-> "none", ret |-> TRUE,
                  how |-> IF order.message THEN "rejected" ELSE "recorded",
                  orders |-> RecordAnswer(os, node, order),
                  calls |-> c, answer |-> order]

\* OrderStillOpen without the test of line 311
OrderStillOpenIgnored(os, node) == IF os.list THEN "TypeError" ELSE "free"

\* lines 309-314: an order other than None is recorded for the node; for the
\* list of next_data the comparison raises TypeError
OrderStillOpen(os, node) ==
    IF os.list THEN "TypeError"
    ELSE IF os.map[node].kind = "order" THEN "open" ELSE "free"

_place_order(os, node, signal, product, distance, tk, accs, stub, ans) ==
    LET guard == OrderStillOpen(os, node)
        stay(e, how) ==
            [exc |-> e, ret |-> FALSE, how |-> how, orders |-> os, calls |-> <<>>,
             answer |-> NoKeyEntry]
    IN  IF guard = "TypeError" THEN stay("TypeError", "guard")
        ELSE IF guard = "open" THEN stay("none", "open")
        ELSE LET market_price == _get_market_price(os, node, signal, product, tk) IN
             IF market_price.type # "Decimal" THEN stay("TypeError", "spread")
             ELSE LET spread == DecDiv(distance, market_price.val) IN
                  IF DecLess(THRESHOLD, spread)
                  THEN IF signal = BUY_ORDER
                       THEN Submit(os, node, "buy", get_quote(product), product,
                                   market_price.val, accs, stub, ans)
                       ELSE IF signal = SELL_ORDER
                       THEN Submit(os, node, "sell", get_base(product), product,
                                   market_price.val, accs, stub, ans)
                       ELSE stay("none", "below")
                  ELSE stay("none", "below")

-----------------------------------------------------------------------------
(* The loop of ArbitrageStrategy.next, one account per step *)

\* what one iteration of the loop did: the held currency it set (Missing:
\* none), how far it went (step), the signal, product and distance derived,
\* self.orders when it began (ordersIn) and when _track_order had returned
\* (ordersTracked), the answers of get_order (payload) and of buy / sell
\* (answer), how _track_order (track) and the order action (act) ended, and
\* the provider calls it made
Did(node, step, s, ordersIn, ordersTracked, payload, answer, track, act, cs) ==
    [node |-> node, step |-> step, signal |-> s.signal, product |-> s.product,
     distance |-> s.distance, ordersIn |-> ordersIn,
     ordersTracked |-> ordersTracked, payload |-> payload, answer |-> answer,
     track |-> track, act |-> act, calls |-> cs]

NoSignal ==
    [exc |-> "none", signal |-> 0, product |-> "None-None", distance |-> DecZero]

\* how next is entered: the held currency then (node), whether next_data
\* left self.orders as it was (kept), and self.orders after next_data; NoEntry
\* while no call of next is running
NoEntry == [node |-> START_NODE, kept |-> TRUE, orders |-> EmptyDict]

NoLast ==
    Did(Missing, "none", NoSignal, EmptyDict, EmptyDict, NoKeyEntry, NoKeyEntry,
        "none", "none", <<>>)

EntryOf(os, node) == IF os.list THEN NoKeyEntry ELSE os.map[node]

Continue(node, os, sigs, did) ==
    /\ current_node' = node
    /\ orders' = os
    /\ calls' = calls \o did.calls
    /\ signals' = sigs
    /\ last' = did
    /\ idx' = idx + 1
    /\ UNCHANGED <<accounts, ticker, pc, exc, stubbed, result, entry, trader, cg, unit>>

Raise(e, node, os, sigs, did) ==
    /\ current_node' = node
    /\ orders' = os
    /\ calls' = calls \o did.calls
    /\ signals' = sigs
    /\ last' = did
    /\ pc' = "crashed"
    /\ exc' = e
    /\ UNCHANGED <<accounts, ticker, idx, stubbed, result, entry, trader, cg, unit>>

\* PositiveBalance with >= for the > of line 53
PositiveBalanceOrZero(account) ==
    /\ account.currency # Missing
    /\ account.balance \in Numerals \cup {"0"}

\* PositiveBalance without the test of line 53
PositiveBalanceIgnored(account) == account.currency # Missing

\* PositiveBalance without the InvalidOperation handler of line 48
PositiveBalanceUnparsed(account) ==
    /\ account.currency # Missing
    /\ (IsNumber(account.balance)
          => DecLess(DecZero, ParseDecimal(account.balance)))

\* Decimal(account['balance']) > Decimal(0), False when either field fails
PositiveBalance(account) ==
    /\ account.currency # Missing
    /\ IsNumber(account.balance)
    /\ DecLess(DecZero, ParseDecimal(account.balance))

\* lines 68-77: _track_order, then _update_pending_order or _place_order
OrderAction(node, s, answers) ==
    LET hasId == OrderField(orders, node, "id").exc = "none"
        sigs == Append(signals, [node |-> node, product |-> s.product])
    IN  \E ans \in IF hasId THEN answers
                   ELSE {[fail |-> TRUE, raised |-> BuiltinError,
                          payload |-> NoneEntry]} :
          LET t == _track_order(orders, node, ans)
              payload == IF t.how \in {"cleared", "updated"} THEN ans.payload
                         ELSE NoKeyEntry
          IN  IF t.exc # "none"
              THEN Raise(t.exc, node, t.orders, sigs,
                       Did(node, "track", s, orders, t.orders, payload,
                           NoKeyEntry, t.how, "none", t.calls))
              ELSE IF t.ret
              THEN \E elapsed \in BOOLEAN, raised \in {"none"} \cup Failures :
                     LET u == _update_pending_order(t.orders, node, s.signal,
                                  s.product, ticker, elapsed, raised)
                         did == Did(node, "update", s, orders, t.orders, payload,
                                    NoKeyEntry, t.how, u.how, t.calls \o u.calls)
                     IN  IF u.exc # "none"
                         THEN Raise(u.exc, node, u.orders, sigs, did)
                         ELSE Continue(node, u.orders, sigs, did)
              ELSE \E sub \in SubmitAnswerKinds :
                     LET p == _place_order(t.orders, node, s.signal, s.product,
                                  s.distance, ticker, accounts, stubbed, sub)
                         did == Did(node, "place", s, orders, t.orders, payload,
                                    p.answer, t.how, p.how, t.calls \o p.calls)
                     IN  IF p.exc # "none"
                         THEN Raise(p.exc, node, p.orders, sigs, did)
                         ELSE Continue(node, p.orders, sigs, did)

\* lines 40-77: the body of the loop for accounts[idx]; answers: what
\* get_order may answer for the order recorded for the account's currency
LoopBody(answers) ==
    /\ pc = "next"
    /\ idx <= Len(accounts)
    /\ LET account == accounts[idx]
           idle(node, step) ==
               Did(node, step, NoSignal, orders, orders, NoKeyEntry, NoKeyEntry,
                   "none", "none", <<>>)
       IN  IF ~PositiveBalance(account)
           THEN Continue(current_node, orders, signals, idle(Missing, "skip"))
           ELSE LET node == account.currency
                    s == _get_trade_signal(ticker, node)
                IN  IF s.exc = "MissingCurrencyGraph"
                    THEN Continue(node, orders, signals, idle(node, "nograph"))
                    ELSE IF s.exc # "none"
                    THEN Raise(s.exc, node, orders, signals, idle(node, "signal"))
                    ELSE OrderAction(node, s, answers)

NextAccount ==
    /\ LoopBody(GetOrderAnswers(EntryOf(orders, accounts[idx].currency)))
    /\ UNCHANGED provider

\* next returns once the loop has passed the last account; _run_iteration
\* (lines 92-97) then returns True
NextReturn ==
    /\ pc = "next"
    /\ idx > Len(accounts)
    /\ pc' = "idle"
    /\ result' = "True"
    /\ entry' = NoEntry
    /\ UNCHANGED <<current_node, orders, accounts, ticker, idx, calls, signals, exc,
                   stubbed, last, trader, cg, unit, provider>>

-----------------------------------------------------------------------------
(* GDAXTrader._run_iteration *)

\* lines 71-89: a fetch of the accounts, orders, position or a ticker fails
RunIterationUnavailable ==
    /\ pc = "idle"
    /\ result' = "False"
    /\ UNCHANGED <<current_node, orders, accounts, ticker, pc, idx, calls, signals,
                   exc, stubbed, last, entry, trader, cg, unit, provider>>

\* lines 71-95: the data is fetched, next_data stores it and next starts
RunIteration ==
    /\ pc = "idle"
    /\ \E a \in AccountFeeds, t \in TickerFeeds, o \in FeedOrders :
         /\ accounts' = a
         /\ ticker' = t
         /\ orders' = o
         /\ entry' = [node |-> current_node, kept |-> (o = orders), orders |-> o]
    /\ pc' = "next"
    /\ idx' = 1
    /\ calls' = <<>>
    /\ signals' = <<>>
    /\ last' = NoLast
    /\ UNCHANGED <<current_node, exc, stubbed, result, trader, cg, unit, provider>>

-----------------------------------------------------------------------------
(* GDAXTrader.run and _run_iteration fetch by fetch.  The strategies are   *)
(* observed from outside: what next_data hands each of them and when next  *)
(* is called.                                                              *)

MaxStrategies == 2

\* add_product: the products tracked
ProductLists ==
    {<<>>, <<"BTC-USD">>, <<"ETH-BTC">>, <<"ETH-BTC", "BTC-USD">>,
     <<"BTC-USD", "ETH-BTC">>}

\* what get_accounts and get_product_ticker may answer
TraderAccountFeeds == {<<>>, <<Account("USD", "1")>>}
TraderTicks == {Tick("1", "2"), Tick("1", "1")}

\* the locals accounts, orders, position and tick_data of _run_iteration
NoSnapshot ==
    [accounts |-> <<>>, orders |-> Missing, position |-> Missing,
     tick_data |-> [p \in {"ETH-BTC", "BTC-USD"} |-> Missing]]

\* a fetch of the iteration: the method called, its argument, and whether it
\* returned (ok) or raised the ConnectionError of line 4
Fetch(op, product, ok) == [op |-> op, product |-> product, ok |-> ok]

\* __init__, add_product and add_strategy (n strategies), then run entered
Configured(ps, n) ==
    [pc |-> "accounts", products |-> ps, strategies |-> n, i |-> 1,
     snapshot |-> NoSnapshot, fetched |-> <<>>,
     strategy_data |-> [k \in 1..n |-> NoSnapshot],
     delivered |-> <<>>, result |-> "none"]

\* lines 77-78: a fetch of the try of line 71 raised; return False
DataUnavailable(t, f) ==
    [t EXCEPT !.pc = "returned", !.result = "False", !.fetched = Append(@, f)]

\* TickerUnavailable going on with the next product (continue for the return
\* False of line 89)
TickerUnavailableSkipped(t, f) ==
    [t EXCEPT !.fetched = Append(@, f),
              !.i = IF t.i < Len(t.products) THEN t.i + 1 ELSE 1,
              !.pc = IF t.i < Len(t.products) THEN "ticker" ELSE "strategies"]

\* lines 88-89: the fetch of a ticker raised; return False
TickerUnavailable(t, f) ==
    [t EXCEPT !.pc = "returned", !.result = "False", !.fetched = Append(@, f)]

\* the loop of lines 83-89 begins, or the loop of line 92 if it is over
ToTickers(t) ==
    [t EXCEPT !.i = 1,
              !.pc = IF Len(t.products) = 0 THEN "strategies" ELSE "ticker"]

\* Deliver calling next before next_data
DeliverNextFirst(log, k, before, data) ==
    log \o <<[strategy |-> k, op |-> "next", data |-> before],
             [strategy |-> k, op |-> "next_data", data |-> data]>>

\* lines 94-95 for strategy k: next_data stores the data (strategy.py, lines
\* 104-107), then next runs on what the strategy holds
Deliver(log, k, before, data) ==
    log \o <<[strategy |-> k, op |-> "next_data", data |-> data],
             [strategy |-> k, op |-> "next", data |-> data]>>

\* line 72
FetchAccounts ==
    /\ trader.pc = "accounts"
    /\ \/ \E a \in TraderAccountFeeds :
             trader' = [trader EXCEPT !.pc = "orders", !.snapshot.accounts = a,
                           !.fetched = Append(@, Fetch("get_accounts", Missing, TRUE))]
       \/ trader' = DataUnavailable(trader, Fetch("get_accounts", Missing, FALSE))
    /\ UNCHANGED <<strategy_vars, cg, unit, provider>>

\* line 73
FetchOrders ==
    /\ trader.pc = "orders"
    /\ \/ trader' = [trader EXCEPT !.pc = "position", !.snapshot.orders = "orders",
                         !.fetched = Append(@, Fetch("get_orders", Missing, TRUE))]
       \/ trader' = DataUnavailable(trader, Fetch("get_orders", Missing, FALSE))
    /\ UNCHANGED <<strategy_vars, cg, unit, provider>>

\* line 74
FetchPosition ==
    /\ trader.pc = "position"
    /\ \/ trader' = ToTickers([trader EXCEPT !.snapshot.position = "position",
                         !.fetched = Append(@, Fetch("get_position", Missing, TRUE))])
       \/ trader' = DataUnavailable(trader, Fetch("get_position", Missing, FALSE))
    /\ UNCHANGED <<strategy_vars, cg, unit, provider>>

\* lines 83-89 for products[i]
FetchTicker ==
    /\ trader.pc = "ticker"
    /\ LET product == trader.products[trader.i]
           last_one == trader.i = Len(trader.products)
       IN  \/ \E tick \in TraderTicks :
                trader' = [trader EXCEPT
                    !.snapshot.tick_data[product] = tick,
                    !.fetched = Append(@, Fetch("get_product_ticker", product, TRUE)),
                    !.i = IF last_one THEN 1 ELSE @ + 1,
                    !.pc = IF last_one THEN "strategies" ELSE "ticker"]
           \/ trader' = TickerUnavailable(trader,
                            Fetch("get_product_ticker", product, FALSE))
    /\ UNCHANGED <<strategy_vars, cg, unit, provider>>

\* lines 92-95 for strategies[i]: next_data, then next, which returns or
\* raises (nothing in _run_iteration catches what a strategy raises)
UpdateStrategy ==
    /\ trader.pc = "strategies"
    /\ trader.i <= trader.strategies
    /\ LET k == trader.i
           fed == [trader EXCEPT
                      !.strategy_data[k] = trader.snapshot,
                      !.delivered = Deliver(@, k, trader.strategy_data[k],
                                            trader.snapshot)]
       IN  \/ trader' = [fed EXCEPT !.i = k + 1]
           \/ trader' = [fed EXCEPT !.pc = "crashed"]
    /\ UNCHANGED <<strategy_vars, cg, unit, provider>>

\* line 97
ReturnTrue ==
    /\ trader.pc = "strategies"
    /\ trader.i > trader.strategies
    /\ trader' = [trader EXCEPT !.pc = "returned", !.result = "True"]
    /\ UNCHANGED <<strategy_vars, cg, unit, provider>>

\* run, lines 59-63: _run_iteration has returned and is called again
RunLoop ==
    /\ trader.pc = "returned"
    /\ trader' = [trader EXCEPT !.pc = "accounts", !.i = 1, !.snapshot = NoSnapshot,
                      !.fetched = <<>>, !.delivered = <<>>, !.result = "none"]
    /\ UNCHANGED <<strategy_vars, cg, unit, provider>>

-----------------------------------------------------------------------------
(* The currency graph on its own: pairs added one by one through           *)
(* add_currency_pair or by _build_currency_graph, then find_arbitrage_path *)
(* followed statement by statement, and the signal taken from its path     *)

MaxPairs == 3

\* the pairs added: four products and the reverse of one of them
PairChoices == {"ETH-BTC", "BTC-USD", "ETH-USD", "LTC-USD", "BTC-ETH"}

\* the (bid, ask) an added pair carries
QuoteChoices == {<<"1", "1">>, <<"1", "2">>, <<"2", "0.5">>}

\* tickers of the two products whose bid parses as Decimal: positive, zero
\* and negative
GraphTickers ==
    {[p \in {"ETH-BTC", "BTC-USD"} |->
        IF p = "ETH-BTC" THEN Tick("1", "2") ELSE Tick(b, "1")] : b \in {"1", "0", "-1"}}

NoAdd == [product |-> "None-None", bid |-> Missing, ask |-> Missing]

Added(product, bid, ask) == [product |-> product, bid |-> bid, ask |-> ask]

NoRelax == [to |-> NoParent, guarded |-> FALSE]

Distance0(start) == [n \in AllNodes |-> IF n = start THEN DecOne ELSE DecZero]

Parents0 == [n \in AllNodes |-> NoParent]

\* the graph between two calls: before is the graph the last add_currency_pair
\* was applied to and added its arguments
Between(g, source, before, added) ==
    [pc |-> "idle", graph |-> g, source |-> source, before |-> before,
     added |-> added, start |-> NoParent, target |-> NoParent, node |-> NoParent,
     e |-> 0, visited |-> {}, distance |-> Distance0(NoParent),
     parents |-> Parents0, relaxed |-> NoRelax, path |-> <<>>,
     found |-> DecZero, signal |-> NoSignal, exc |-> "none"]

\* CurrencyGraph(): lines 33-35
NewGraph == Between(EmptyGraph, "api", EmptyGraph, NoAdd)

\* the locals of find_arbitrage_path are gone when it has returned or raised
Left(c, pc_, e) ==
    [Between(c.graph, c.source, EmptyGraph, NoAdd) EXCEPT
        !.pc = pc_, !.start = c.start, !.exc = e]

\* add_currency_pair(base, quote, bid, ask) on the graph built so far
AddCurrencyPair ==
    /\ cg.pc = "idle"
    /\ cg.source = "api"
    /\ Len(cg.graph.currency_pairs) < MaxPairs
    /\ \E product \in PairChoices, q \in QuoteChoices :
          cg' = Between(add_currency_pair(cg.graph, get_base(product),
                            get_quote(product), ParseDecimal(q[1]),
                            ParseDecimal(q[2])),
                        "api", cg.graph, Added(product, q[1], q[2]))
    /\ UNCHANGED <<strategy_vars, trader, unit, provider>>

\* _build_currency_graph on a ticker (arbitrage.py, lines 144-161)
BuildCurrencyGraph ==
    /\ cg.pc = "idle"
    /\ cg.graph = EmptyGraph
    /\ \E tk \in GraphTickers :
          cg' = Between(_build_currency_graph(tk).graph, "ticker", EmptyGraph, NoAdd)
    /\ UNCHANGED <<strategy_vars, trader, unit, provider>>

\* lines 109-114; visited[node] of line 116 raises KeyError when start is no
\* key of the graph
StartSearch ==
    /\ cg.pc = "idle"
    /\ \E start \in AllNodes :
          IF InSeq(start, cg.graph.keys)
          THEN cg' = [Between(cg.graph, cg.source, EmptyGraph, NoAdd) EXCEPT
                         !.pc = "while", !.start = start, !.node = start,
                         !.distance = Distance0(start)]
          ELSE cg' = Left([cg EXCEPT !.start = start], "raised", "KeyError")
    /\ UNCHANGED <<strategy_vars, trader, unit, provider>>

\* VisitNode without line 117: the node is not marked
VisitNodeNotMarking ==
    /\ cg.pc = "while"
    /\ cg.node \notin cg.visited
    /\ cg' = [cg EXCEPT !.pc = "edges", !.e = 1, !.relaxed = NoRelax]
    /\ UNCHANGED <<strategy_vars, trader, unit, provider>>

\* lines 116-118: the node is not visited yet
VisitNode ==
    /\ cg.pc = "while"
    /\ cg.node \notin cg.visited
    /\ cg' = [cg EXCEPT !.pc = "edges", !.visited = @ \cup {cg.node}, !.e = 1,
                        !.relaxed = NoRelax]
    /\ UNCHANGED <<strategy_vars, trader, unit, provider>>

\* lines 120-128 for the next edge of the node
RelaxNextEdge ==
    /\ cg.pc = "edges"
    /\ cg.e <= Len(cg.graph.edges[cg.node])
    /\ LET edge == cg.graph.edges[cg.node][cg.e]
           r == RelaxEdge(cg.start, cg.node, edge, cg.distance, cg.parents)
       IN  IF r.exc # "none"
           THEN cg' = Left(cg, "raised", r.exc)
           ELSE cg' = [cg EXCEPT !.distance = r.distance, !.parents = r.parents,
                                 !.e = @ + 1,
                                 !.relaxed = [to |-> edge.to, guarded |-> r.guarded]]
    /\ UNCHANGED <<strategy_vars, trader, unit, provider>>

\* lines 130-136
SelectNextNode ==
    /\ cg.pc = "edges"
    /\ cg.e > Len(cg.graph.edges[cg.node])
    /\ cg' = [cg EXCEPT !.pc = "while", !.e = 0, !.relaxed = NoRelax,
                        !.node = SelectNode(cg.graph.keys, 1, cg.visited,
                                            cg.distance, cg.start, DecZero)]
    /\ UNCHANGED <<strategy_vars, trader, unit, provider>>

\* lines 138-140: the loop is left; parents[target] raises KeyError when the
\* target is no key of the graph
ReturnPath ==
    /\ cg.pc = "while"
    /\ cg.node \in cg.visited
    /\ \E target \in AllNodes :
          IF InSeq(target, cg.graph.keys)
          THEN cg' = [Left(cg, "done", "none") EXCEPT
                         !.target = target,
                         !.path = _get_path(cg.start, target, cg.parents),
                         !.found = cg.distance[target]]
          ELSE cg' = [Left(cg, "raised", "KeyError") EXCEPT !.target = target]
    /\ UNCHANGED <<strategy_vars, trader, unit, provider>>

\* arbitrage.py, line 207, on the path returned
NextSignal ==
    /\ cg.pc = "done"
    /\ LET s == SignalWithDistance(cg.graph, [path |-> cg.path, distance |-> cg.found])
       IN  cg' = [cg EXCEPT !.pc = "signalled", !.signal = s, !.exc = s.exc]
    /\ UNCHANGED <<strategy_vars, trader, unit, provider>>

\* the graph is used again
Again ==
    /\ cg.pc \in {"done", "signalled", "raised"}
    /\ cg' = Between(cg.graph, cg.source, EmptyGraph, NoAdd)
    /\ UNCHANGED <<strategy_vars, trader, unit, provider>>

-----------------------------------------------------------------------------
(* The methods of Strategy and ArbitrageStrategy that read the snapshot of *)
(* next_data, called on their own                                          *)

\* the accounts a caller may hand over: several of one currency, balances
\* that do not convert or are absent
UnitAccountRecords ==
    AccountRecords \cup {Account("USD", "abc"), Account("USD", "2"),
                         Account("USD", Missing), Account("ETH", "0.5")}

UnitAccountFeeds == SeqsUpTo(UnitAccountRecords, MaxAccounts)

\* tickers without a product or without prices beside those of the feed
UnitTickerFeeds ==
    TickerFeeds \cup {[p \in {"ETH-BTC"} |-> Tick("1", "2")],
                      [p \in {"ETH-BTC", "BTC-USD"} |-> Tick(Missing, Missing)]}

\* self.orders with None or a payload without price for USD beside the feeds
UnitOrders ==
    FeedOrders \cup
        {DictOrders([c \in Currencies |-> IF c = "USD" THEN o ELSE NoKeyEntry]) :
            o \in {NoneEntry, ErrorPayload}}

\* the signals _get_market_price may be given: Buy, Sell, and one that is neither
UnitSignals == {0, BUY_ORDER, SELL_ORDER}

NoBalance == [type |-> "None", val |-> DecZero]
NoPrice == [type |-> "None", val |-> DecZero, text |-> Missing]

\* the method called (op), its arguments and what it returned
Called(op, currency, signal, product, balance, price) ==
    [op |-> op, currency |-> currency, signal |-> signal, product |-> product,
     balance |-> balance, price |-> price]

NoCall == Called("none", Missing, 0, Missing, NoBalance, NoPrice)

\* strategy.get_currency_balance(currency)
GetCurrencyBalance ==
    /\ \E currency \in Currencies :
        unit' = Called("get_currency_balance", currency, 0, Missing,
                       get_currency_balance(accounts, currency, FALSE), NoPrice)
    /\ UNCHANGED <<strategy_vars, trader, cg, provider>>

\* arbitrage._get_market_price(signal, product)
GetMarketPrice ==
    /\ \E signal \in UnitSignals, product \in {"ETH-BTC", "BTC-USD"} :
        unit' = Called("_get_market_price", Missing, signal, product, NoBalance,
                       _get_market_price(orders, current_node, signal, product,
                                         ticker))
    /\ UNCHANGED <<strategy_vars, trader, cg, provider>>

-----------------------------------------------------------------------------
(* The life of an order at a provider that holds it: next is called cycle  *)
(* after cycle on the orders the strategy recorded itself (as the tests of  *)
(* the strategy call it), for a holder of USD, and get_order fails or       *)
(* answers what the provider holds                                          *)

\* the payloads with which the provider reports the end of the order o:
\* rejected, cancelled, done and settled
EndReports(o) ==
    { [o EXCEPT !.status = "rejected", !.settled = "false"],
      [o EXCEPT !.status = "done", !.settled = "false", !.done_reason = "cancelled"],
      [o EXCEPT !.status = "done", !.settled = "true", !.done_reason = "filled"] }

\* get_order returns what the provider holds, or raises
ProviderAnswers == {[fail |-> FALSE, raised |-> "none", payload |-> provider]}

ProviderFails ==
    {[fail |-> TRUE, raised |-> e, payload |-> NoneEntry] : e \in Failures}

\* the provider holds the order it accepted in the pass, if it accepted one
Held ==
    IF last'.step = "place" /\ last'.act = "recorded" THEN last'.answer
    ELSE provider

\* the order recorded at the start: none, or an open order on BTC-USD
FirstOrders == {NoKeyEntry, OpenOrder("o1", "BTC-USD", "1")}

\* the order ends at the provider
ProviderEnds ==
    /\ pc # "crashed"
    /\ provider.kind = "order"
    /\ ~Terminal(provider)
    /\ provider' \in EndReports(provider)
    /\ UNCHANGED <<strategy_vars, trader, cg, unit>>

\* the tickers of the feed that hold both prices of both products
FullTickers ==
    {t \in TickerFeeds :
        \A p \in DOMAIN t : t[p].bid \in Numerals /\ t[p].ask \in Numerals}

\* next_data hands over the ticker of the cycle with the accounts and the
\* orders as they are, and next begins
CycleBegins ==
    /\ pc = "idle"
    /\ ticker' \in FullTickers
    /\ entry' = [node |-> current_node, kept |-> TRUE, orders |-> orders]
    /\ pc' = "next"
    /\ idx' = 1
    /\ calls' = <<>>
    /\ signals' = <<>>
    /\ last' = NoLast
    /\ UNCHANGED <<current_node, orders, accounts, exc, stubbed, result, trader,
                   cg, unit, provider>>

\* the body of the loop of next for the account that is due: get_order
\* returns what the provider holds, or raises
Pass ==
    /\ LoopBody(ProviderAnswers \cup ProviderFails)
    /\ provider' = Held

\* the step is a pass of the loop: it moves on to the next account or raises
Passed == pc = "next" /\ idx <= Len(accounts) /\ (idx' # idx \/ pc' # pc)

\* the step is a pass in which get_order returned a payload
QueryAnswered == Passed /\ last'.track \in {"cleared", "updated"}

-----------------------------------------------------------------------------
(* The specifications *)

\* lines 35-37, and the fields of a strategy before its first next_data
set_up ==
    /\ current_node = START_NODE
    /\ orders = EmptyDict
    /\ accounts = <<>>
    /\ ticker = [p \in {"ETH-BTC", "BTC-USD"} |-> Tick(Missing, Missing)]
    /\ pc = "idle"
    /\ idx = 1
    /\ calls = <<>>
    /\ signals = <<>>
    /\ exc = "none"
    /\ stubbed \in BOOLEAN
    /\ result = "none"
    /\ last = NoLast
    /\ entry = NoEntry

\* the engine: one ArbitrageStrategy on the two products, before the first
\* iteration
Init == set_up /\ trader = Configured(Products, 1) /\ cg = NewGraph /\ unit = NoCall /\ provider = NoKeyEntry

Next ==
    \/ RunIteration
    \/ RunIterationUnavailable
    \/ NextAccount
    \/ NextReturn

Spec == Init /\ [][Next]_vars

\* the trader with any products and up to MaxStrategies strategies
TraderInit ==
    /\ set_up
    /\ \E ps \in ProductLists, n \in 0..MaxStrategies : trader = Configured(ps, n)
    /\ cg = NewGraph
    /\ unit = NoCall /\ provider = NoKeyEntry

TraderNext ==
    \/ FetchAccounts
    \/ FetchOrders
    \/ FetchPosition
    \/ FetchTicker
    \/ UpdateStrategy
    \/ ReturnTrue
    \/ RunLoop

TraderSpec == TraderInit /\ [][TraderNext]_vars

\* a graph of its own, the engine at rest
GraphInit ==
    set_up /\ ~stubbed /\ trader = Configured(Products, 1) /\ cg = NewGraph
        /\ unit = NoCall /\ provider = NoKeyEntry

GraphNext ==
    \/ AddCurrencyPair
    \/ BuildCurrencyGraph
    \/ StartSearch
    \/ VisitNode
    \/ RelaxNextEdge
    \/ SelectNextNode
    \/ ReturnPath
    \/ NextSignal
    \/ Again

GraphSpec == GraphInit /\ [][GraphNext]_vars

\* a call of find_arbitrage_path that has begun goes on statement by statement
\* until it returns or raises
GraphFairSpec ==
    /\ GraphSpec
    /\ WF_vars(VisitNode)
    /\ WF_vars(RelaxNextEdge)
    /\ WF_vars(SelectNextNode)
    /\ WF_vars(ReturnPath)

\* a strategy that holds USD, with or without an order recorded for it that
\* the provider holds as open
LifeInit ==
    /\ current_node = START_NODE
    /\ \E o \in FirstOrders :
          /\ orders = DictOrders([c \in Currencies |->
                                    IF c = "USD" THEN o ELSE NoKeyEntry])
          /\ provider = o
    /\ accounts = <<Account("USD", "1")>>
    /\ ticker = [p \in {"ETH-BTC", "BTC-USD"} |-> Tick(Missing, Missing)]
    /\ pc = "idle"
    /\ idx = 1
    /\ calls = <<>>
    /\ signals = <<>>
    /\ exc = "none"
    /\ stubbed \in BOOLEAN
    /\ result = "none"
    /\ last = NoLast
    /\ entry = NoEntry
    /\ trader = Configured(Products, 1)
    /\ cg = NewGraph
    /\ unit = NoCall

LifeNext ==
    \/ ProviderEnds
    \/ CycleBegins
    \/ Pass
    \/ NextReturn

\* the loop of next is at an account
PassDue == pc = "next" /\ idx <= Len(accounts)

\* the pass that is due will make a status query: the account holds a
\* positive balance, a signal is derived and an order with an id is recorded
QueryDue ==
    /\ PassDue
    /\ PositiveBalance(accounts[idx])
    /\ _get_trade_signal(ticker, accounts[idx].currency).exc = "none"
    /\ OrderField(orders, accounts[idx].currency, "id").exc = "none"

\* cycle follows cycle and next runs statement by statement to its end (weak
\* fairness of its steps); of the status queries made again and again one is
\* answered in the end (strong fairness of the answered query).  The fairness
\* of the passes is written with their enabling conditions spelled out
LifeSpec ==
    /\ LifeInit
    /\ [][LifeNext]_vars
    /\ WF_vars(CycleBegins)
    /\ WF_vars(NextReturn)
    /\ (<>[]PassDue => []<><<Passed>>_vars)
    /\ ([]<>QueryDue => []<><<QueryAnswered>>_vars)

\* a strategy that next_data has given a snapshot, its methods called in any
\* order
UnitInit ==
    /\ current_node \in Currencies
    /\ orders \in UnitOrders
    /\ accounts \in UnitAccountFeeds
    /\ ticker \in UnitTickerFeeds
    /\ pc = "idle"
    /\ idx = 1
    /\ calls = <<>>
    /\ signals = <<>>
    /\ exc = "none"
    /\ stubbed = FALSE
    /\ result = "none"
    /\ last = NoLast
    /\ entry = NoEntry
    /\ trader = Configured(Products, 1)
    /\ cg = NewGraph
    /\ unit = NoCall /\ provider = NoKeyEntry

UnitNext ==
    \/ GetCurrencyBalance
    \/ GetMarketPrice

UnitSpec == UnitInit /\ [][UnitNext]_vars

-----------------------------------------------------------------------------
(* Properties of the order lifecycle *)

IsSubmission(c) == c.op \in {"buy", "sell"}

HasSubmission(cs) == \E i \in 1..Len(cs) : IsSubmission(cs[i])

HasQuery(cs) == \E i \in 1..Len(cs) : cs[i].op = "get_order"

\* the market price of the pass d, and whether its spread exceeds the threshold
MarketPriceOf(d) ==
    _get_market_price(d.ordersTracked, d.node, d.signal, d.product, ticker)

AboveThreshold(d) ==
    /\ d.signal \in {BUY_ORDER, SELL_ORDER}
    /\ MarketPriceOf(d).type = "Decimal"
    /\ DecLess(THRESHOLD, DecDiv(d.distance, MarketPriceOf(d).val))

\* the provider's payload reports the order rejected, cancelled, done and
\* settled, or is an error payload
ReportedTerminal(p) ==
    \/ p.message
    \/ p.status = "rejected"
    \/ p.done_reason = "cancelled"
    \/ (p.status = "done" /\ p.settled = "true")

\* the balance text of the account is a number above 0
HoldsBalance(account) ==
    account.currency # Missing /\ account.balance \in {"1", "1.002", "2"}

PositiveAccounts(n) == {i \in 1..n : i <= Len(accounts) /\ HoldsBalance(accounts[i])}

Max(S) == CHOOSE x \in S : \A y \in S : y <= x

Min(S) == CHOOSE x \in S : \A y \in S : x <= y

LoopDone == pc = "next" /\ idx > Len(accounts)

\* C1: no buy or sell is ever submitted for a currency while an order is
\* recorded for it: every buy / sell of a call of next was made with no order
\* recorded for the held currency, and _place_order, entered with an order
\* recorded, returns at its guard without a provider call
C1_NoSubmissionWhileOrderRecorded ==
    /\ \A i \in 1..Len(calls) : IsSubmission(calls[i]) => ~calls[i].had
    /\ (last.step = "place" /\ Recorded(last.ordersTracked, last.node))
          => (last.act = "open" /\ ~HasSubmission(last.calls)
              /\ orders = last.ordersTracked)

\* _place_order was entered with an order recorded, a stubbed balance and a
\* spread above the threshold, and returned at its guard
C1_Witness ==
    /\ last.step = "place"
    /\ Recorded(last.ordersTracked, last.node)
    /\ last.act = "open"
    /\ stubbed
    /\ AboveThreshold(last)

C4_ClearsExactlyOnTerminalReport ==
    /\ last.track \in {"cleared", "updated"}
          => (ReportedTerminal(last.payload) <=> last.track = "cleared")
    /\ last.track = "cleared"
          => /\ EntryOf(last.ordersTracked, last.node) = NoneEntry
             /\ last.step = "place"
    /\ last.track = "updated"
          => /\ EntryOf(last.ordersTracked, last.node) = last.payload
             /\ last.step = "update"
    /\ last.track \in {"noid", "fail"} => last.ordersTracked = last.ordersIn

\* a payload with done reason cancelled was answered and the order cleared
C4_Witness ==
    /\ last.track = "cleared"
    /\ last.payload.done_reason = "cancelled"
    /\ Recorded(last.ordersIn, last.node)
    /\ EntryOf(last.ordersTracked, last.node) = NoneEntry

\* C5: when buy / sell fails with either ConnectionError or answers a payload
\* with a message, the orders are as _place_order found them, the held
\* currency is the one it was called for, and no order is recorded for it
C5_FailedSubmissionChangesNothing ==
    (last.step = "place" /\ last.act \in {"fail", "escaped", "rejected"})
        => /\ HasSubmission(last.calls)
           /\ orders = last.ordersTracked
           /\ current_node = last.node
           /\ ~Recorded(orders, last.node)

\* a submission was answered with a rejection payload
C5_Witness ==
    /\ last.step = "place"
    /\ last.act = "rejected"
    /\ last.answer.message
    /\ HasSubmission(last.calls)

\* C6: when buy / sell returns an order, that order is recorded for the held
\* currency and the entry of every other currency is as it was
C6_AcceptedOrderRecordedForHeldCurrency ==
    (last.step = "place" /\ last.act = "recorded")
        => /\ ~orders.list
           /\ last.answer.kind = "order"
           /\ ~last.answer.message
           /\ orders.map[last.node] = last.answer
           /\ current_node = last.node
           /\ \A c \in Currencies \ {last.node} :
                  orders.map[c] = last.ordersTracked.map[c]

\* a sell of ETH was accepted while USD is the default start currency
C6_Witness ==
    /\ last.step = "place"
    /\ last.act = "recorded"
    /\ last.node = "ETH"
    /\ orders.map["ETH"] = last.answer

\* C7 as stated: the order recorded by an accepted submission is still
\* recorded for its currency when the next iteration has applied next_data
C7_RecordedOrderSurvivesNextData ==
    [][(pc = "idle" /\ pc' = "next" /\ last.step = "place"
        /\ last.act = "recorded")
          => EntryOf(orders', last.node) = EntryOf(orders, last.node)]_vars

\* C8 as stated: entered with no order recorded, a Buy or Sell signal and a
\* market price, _place_order submits exactly when the spread exceeds the
\* threshold
C8_SubmitsIffAboveThreshold ==
    (/\ last.step = "place"
     /\ ~last.ordersTracked.list
     /\ ~Recorded(last.ordersTracked, last.node)
     /\ last.signal \in {BUY_ORDER, SELL_ORDER}
     /\ MarketPriceOf(last).type = "Decimal")
        => (HasSubmission(last.calls) <=> AboveThreshold(last))

-----------------------------------------------------------------------------
(* Properties of a call of next *)

\* C11: when no account of the cycle has a balance that parses to a number
\* above 0 (records without fields and unparseable balances included), the
\* call of next leaves the held currency as it was on entry, makes no status
\* query, cancel, buy or sell, derives no signal, leaves self.orders as
\* next_data stored it, and raises nothing
C11_NoPositiveBalanceNoAction ==
    (pc \in {"next", "crashed"} /\ PositiveAccounts(Len(accounts)) = {})
        => /\ pc = "next"
           /\ current_node = entry.node
           /\ orders = entry.orders
           /\ calls = <<>>
           /\ signals = <<>>

\* a call of next has passed a record without fields and an unparseable
\* balance while ETH was held and an order was recorded
C11_Witness ==
    /\ LoopDone
    /\ accounts = <<Account(Missing, Missing), Account("BTC", "abc")>>
    /\ entry.node = "ETH"
    /\ current_node = "ETH"
    /\ Recorded(orders, "USD")
    /\ last.step = "skip"

\* the bid and the ask of the product are present and numeric
QuoteValid(tk, product) ==
    /\ product \in DOMAIN tk
    /\ tk[product].bid \in {"1", "1.002", "2"}
    /\ tk[product].ask \in {"1", "1.002", "2"}

AllQuotesValid(tk) == \A i \in 1..Len(Products) : QuoteValid(tk, Products[i])

\* C12: building the graph is all or nothing. With the bid or ask of any
\* product missing or not numeric _build_currency_graph yields no graph, never
\* one holding the pairs before the bad product, and the pass that asked for
\* the signal ends without one; with all quotes valid the graph holds every
\* product exactly once, in the order of the products, with the buy edge of
\* each product weighted by its bid, and the pass derives a signal
C12_GraphAllOrNothing ==
    pc \in {"next", "crashed"} =>
        LET built == _build_currency_graph(ticker)
        IN  /\ IF AllQuotesValid(ticker)
               THEN /\ ~built.none
                    /\ built.graph.currency_pairs =
                         [i \in 1..Len(Products) |->
                             [base |-> get_base(Products[i]),
                              quote |-> get_quote(Products[i])]]
                    /\ \A i \in 1..Len(Products) :
                         InSeq([to |-> get_ask(get_base(Products[i])),
                                w |-> ParseDecimal(ticker[Products[i]].bid)],
                               built.graph.edges[get_bid(get_quote(Products[i]))])
               ELSE built.none /\ built.graph = EmptyGraph
            /\ (last.step = "nograph" => ~AllQuotesValid(ticker))
            /\ (last.step \in {"signal", "track", "update", "place"}
                  => AllQuotesValid(ticker))

\* a funded account was passed with the first product quoted and the ask of
\* the second missing: no graph, although the first pair could have been added
C12_Witness ==
    /\ pc = "next"
    /\ last.step = "nograph"
    /\ QuoteValid(ticker, Products[1])
    /\ ticker[Products[2]].ask = Missing

\* C13: in a cycle whose graph cannot be built the call of next does nothing
\* for any account: no status query, cancel, buy or sell is issued, no signal
\* is derived, self.orders stays as next_data stored it and no exception
\* leaves next; the pass of a funded account only sets the held currency
C13_NoGraphNoAction ==
    /\ (pc \in {"next", "crashed"} /\ ~AllQuotesValid(ticker))
          => /\ pc = "next"
             /\ calls = <<>>
             /\ signals = <<>>
             /\ orders = entry.orders
    /\ last.step = "nograph"
          => /\ last.calls = <<>>
             /\ orders = last.ordersIn
             /\ current_node = last.node

\* a call of next has passed two funded accounts, one with an order recorded,
\* on a ticker with a bid that is no number
C13_Witness ==
    /\ LoopDone
    /\ accounts = <<Account("USD", "1"), Account("ETH", "1")>>
    /\ ticker["ETH-BTC"].bid = "abc"
    /\ Recorded(orders, "USD")
    /\ last.step = "nograph"
    /\ entry.node = "USD"
    /\ current_node = "ETH"

-----------------------------------------------------------------------------
(* Properties of the reconciliation of an open order *)

HasCancel(cs) == \E i \in 1..Len(cs) : cs[i].op = "cancel_order"

\* the order recorded when the pass d reconciled it is for another product
\* than the derived one, or at another price than the market price
OrderDiffers(d) ==
    LET o == EntryOf(d.ordersTracked, d.node)
    IN  \/ o.product_id # d.product
        \/ MarketPriceOf(d).type # "Decimal"
        \/ ParseDecimal(o.price) # MarketPriceOf(d).val

\* C14 as stated, for an order older than a minute: a pass that reconciles
\* a still-open order requests its cancellation exactly when its product
\* differs from the derived product or its price from the market price
C14_CancelsIffOrderDiffers ==
    (last.step = "update" /\ last.act \notin {"noorder", "young"})
        => (HasCancel(last.calls) <=> OrderDiffers(last))

\* C15: requesting a cancel never changes the recorded order. A pass that
\* reconciles an order leaves self.orders as _track_order returned it, whether
\* cancel_order was not called, returned or raised; the order is still
\* recorded after a cancel request; and a pass ends with the order of its
\* currency gone only when its status query reported the order terminal
C15_CancelLeavesOrderRecorded ==
    /\ last.step = "update"
          => /\ orders = last.ordersTracked
             /\ (HasCancel(last.calls) => Recorded(orders, last.node))
    /\ (last.node # Missing /\ Recorded(last.ordersIn, last.node)
           /\ ~Recorded(orders, last.node))
          => /\ last.track = "cleared"
             /\ ReportedTerminal(last.payload)
             /\ ~HasCancel(last.calls)

\* cancel_order was called for the order recorded for USD and returned; the
\* order is still recorded
C15_Witness ==
    /\ pc = "next"
    /\ last.step = "update"
    /\ last.act = "ok"
    /\ last.calls[Len(last.calls)].op = "cancel_order"
    /\ Recorded(orders, "USD")
    /\ orders = last.ordersTracked

-----------------------------------------------------------------------------
(* Properties of whole cycles *)

\* the signal derived for every funded account of the cycle has a spread that
\* does not exceed the threshold
CycleBelowThreshold ==
    \A i \in PositiveAccounts(Len(accounts)) :
        LET s == _get_trade_signal(ticker, accounts[i].currency)
            text == IF s.signal = BUY_ORDER THEN ticker[s.product].bid
                    ELSE ticker[s.product].ask
        IN  /\ s.exc = "none"
            /\ text \in {"1", "1.002", "2"}
            /\ ~DecLess(THRESHOLD, DecDiv(s.distance, ParseDecimal(text)))

\* C16 as stated, for one cycle that starts with the currency of its last
\* funded account held and no order recorded: below the threshold the call
\* of next returns with the held currency and self.orders as they were before
\* the cycle and without a buy or sell
C16_IdempotentBelowThreshold ==
    (/\ LoopDone \/ pc = "crashed"
     /\ PositiveAccounts(Len(accounts)) # {}
     /\ CycleBelowThreshold
     /\ entry.node = accounts[Max(PositiveAccounts(Len(accounts)))].currency
     /\ \A c \in Currencies : ~Recorded(entry.orders, c))
        => /\ pc = "next"
           /\ current_node = entry.node
           /\ entry.kept
           /\ orders = entry.orders
           /\ ~HasSubmission(calls)

\* C17 as stated: a provider call of next that fails (get_order, cancel_order,
\* buy or sell raising a connection failure) leaves self.orders as the call
\* found it, and no exception leaves next
C17_ProviderFailureIsNoOp ==
    /\ last.track \in {"fail", "escaped"}
          => (pc # "crashed" /\ orders = last.ordersIn)
    /\ last.act \in {"fail", "escaped"}
          => (pc # "crashed" /\ orders = last.ordersTracked)

-----------------------------------------------------------------------------
(* Properties of _run_iteration and run *)

FailedFetches == {j \in 1..Len(trader.fetched) : ~trader.fetched[j].ok}

TickerFetches ==
    SelectSeq(trader.fetched, LAMBDA f : f.op = "get_product_ticker")

\* C18: once a fetch of accounts, orders, position or a ticker has failed,
\* _run_iteration has returned False, the failed fetch was its last one, and
\* no strategy was handed next_data or next in the iteration; after a failed
\* fetch of the accounts no ticker was fetched (nor anything else)
C18_FetchFailureSkipsStrategies ==
    FailedFetches # {} =>
        /\ trader.pc = "returned"
        /\ trader.result = "False"
        /\ FailedFetches = {Len(trader.fetched)}
        /\ trader.delivered = <<>>
        /\ (~trader.fetched[1].ok
             => /\ trader.fetched = <<Fetch("get_accounts", Missing, FALSE)>>
                /\ TickerFetches = <<>>)

\* the ticker of the second of two products failed, with two strategies
\* registered that have been fed in an earlier iteration
C18_Witness ==
    /\ trader.pc = "returned"
    /\ trader.result = "False"
    /\ trader.strategies = 2
    /\ Len(trader.products) = 2
    /\ Len(trader.fetched) = 5
    /\ trader.fetched[5] = Fetch("get_product_ticker", trader.products[2], FALSE)
    /\ trader.delivered = <<>>
    /\ trader.strategy_data[1] # NoSnapshot

\* C19: when _run_iteration returns True it has fetched accounts, orders and
\* position and then the ticker of every product exactly once, in the order
\* of the products, and after that has called, for every registered strategy
\* in turn, next_data and then next, once each, every strategy being handed
\* the one snapshot of the iteration, which holds the fetched tickers; and no
\* strategy is called before the last ticker is fetched
C19_SuccessfulIteration ==
    /\ trader.result = "True" =>
          /\ FailedFetches = {}
          /\ Len(trader.fetched) = 3 + Len(trader.products)
          /\ TickerFetches =
                [j \in 1..Len(trader.products) |->
                    Fetch("get_product_ticker", trader.products[j], TRUE)]
          /\ \A j \in 1..Len(trader.products) :
                trader.snapshot.tick_data[trader.products[j]] \in TraderTicks
          /\ trader.delivered =
                [j \in 1..(2 * trader.strategies) |->
                    [strategy |-> (j + 1) \div 2,
                     op |-> IF j % 2 = 1 THEN "next_data" ELSE "next",
                     data |-> trader.snapshot]]
          /\ \A k \in 1..trader.strategies :
                trader.strategy_data[k] = trader.snapshot
    /\ trader.delivered # <<>> =>
          /\ Len(TickerFetches) = Len(trader.products)
          /\ FailedFetches = {}

\* an iteration over two products and two strategies has returned True
C19_Witness ==
    /\ trader.result = "True"
    /\ trader.strategies = 2
    /\ Len(trader.products) = 2
    /\ Len(trader.delivered) = 4
    /\ trader.snapshot.accounts # <<>>

\* C20 as stated: no failure in an iteration ends the loop of run.  An
\* exception that leaves next also leaves _run_iteration (lines 92-95) and
\* run (lines 59-63), which handle none, so that no further iteration
\* starts; the claim is that no failure of a provider call during
\* reconciliation or placement ends an iteration so
C20_RunNeverStops == ~(pc = "crashed" /\ exc \in Failures)

-----------------------------------------------------------------------------
(* Properties of the currency graph and of its search *)

\* the largest element of a non-empty set of decimals
DecMaximum(S) == CHOOSE x \in S : \A y \in S : ~DecLess(x, y)

\* the values of the simple paths from node to target that avoid the nodes
\* of onpath, value being what the path from the start to node is worth
RECURSIVE SimplePathValues(_, _, _, _, _)
SimplePathValues(g, node, target, onpath, value) ==
    IF node = target THEN {value}
    ELSE UNION {SimplePathValues(g, g.edges[node][i].to, target,
                                 onpath \cup {g.edges[node][i].to},
                                 DecDiv(value, g.edges[node][i].w)) :
                i \in {j \in 1..Len(g.edges[node]) : g.edges[node][j].to \notin onpath}}

\* the values of all simple paths from start to target
PathValues(g, start, target) == SimplePathValues(g, start, target, {start}, DecOne)

\* find_arbitrage_path has returned for a graph built by add_currency_pair
Returned == cg.pc = "done" /\ cg.source = "api"

\* C21: the distance find_arbitrage_path returns is the largest value over
\* all simple paths from start to target, the value of a path being 1
\* divided by the weight of each of its edges in turn
C21_DistanceIsMaximum ==
    (Returned /\ PathValues(cg.graph, cg.start, cg.target) # {})
        => cg.found = DecMaximum(PathValues(cg.graph, cg.start, cg.target))

NoRepeat(path) == \A i, j \in 1..Len(path) : path[i] = path[j] => i = j

Searching == cg.pc \in {"while", "edges"}

\* the edge the last step of the search has relaxed
RelaxedEdge == cg.graph.edges[cg.node][cg.e - 1]

HasEdge(g, a, b) == \E i \in 1..Len(g.edges[a]) : g.edges[a][i].to = b

\* the path goes from start to target along edges of the graph
WellFormed(g, start, target, path) ==
    /\ Len(path) >= 1
    /\ path[1] = start
    /\ path[Len(path)] = target
    /\ \A i \in 1..(Len(path) - 1) : HasEdge(g, path[i], path[i + 1])
    /\ Len(path) - 1 <= MAX_PATH_LENGTH

\* the nodes reached from the nodes of seen along edges of positive weight
RECURSIVE Reach(_, _)
Reach(g, seen) ==
    LET more == seen \cup {n \in AllNodes :
                    \E m \in seen : \E i \in 1..Len(g.edges[m]) :
                        g.edges[m][i].to = n /\ DecLess(DecZero, g.edges[m][i].w)}
    IN  IF more = seen THEN seen ELSE Reach(g, more)

Reachable(g, start, target) == target \in Reach(g, {start})

\* C23 as stated: every path returned begins at start, ends at target, joins
\* consecutive nodes by edges of the graph and has at most MAX_PATH_LENGTH
\* hops
C23_PathWellFormed ==
    cg.pc = "done" => WellFormed(cg.graph, cg.start, cg.target, cg.path)

\* where C23 holds and where it fails: the path returned is such a path
\* whenever the target can be reached from start along edges of positive
\* weight; when it cannot, the list returned is [-1, target] and the
\* distance 0
PathWellFormedWhenReachable ==
    cg.pc = "done" =>
        IF Reachable(cg.graph, cg.start, cg.target)
        THEN WellFormed(cg.graph, cg.start, cg.target, cg.path)
        ELSE cg.path = <<NoParent, cg.target>> /\ cg.found = DecZero

\* a path of five hops or more was returned
LongPathReturned ==
    /\ cg.pc = "done"
    /\ Reachable(cg.graph, cg.start, cg.target)
    /\ Len(cg.path) >= 6
    /\ cg.path[1] = cg.start
    /\ cg.path[Len(cg.path)] = cg.target

SinglePairSearched ==
    /\ Returned
    /\ \E product \in PairChoices :
          /\ cg.graph = add_currency_pair(EmptyGraph, get_base(product),
                            get_quote(product), ParseDecimal("2"), ParseDecimal("0.5"))
          /\ cg.start = get_bid(get_base(product))
          /\ cg.target = get_ask(get_quote(product))

\* C25 as stated: the distance found is exactly 2
C25_SinglePairDistanceTwo == SinglePairSearched => cg.found = Dec(2, 1)

\* C25 amended: the distance found is exactly 0.5, the ask: 1 divided by the
\* weight 1 / 0.5 of the one edge of the path
C25_SinglePairDistanceIsAsk ==
    SinglePairSearched => cg.found = Dec(1, 2) /\ cg.path = <<cg.start, cg.target>>

C25_Witness == SinglePairSearched /\ cg.found = ParseDecimal("0.5")

\* the currencies of the pairs added to the graph
CurrenciesOf(g) ==
    {g.currency_pairs[i].base : i \in 1..Len(g.currency_pairs)}
        \cup {g.currency_pairs[i].quote : i \in 1..Len(g.currency_pairs)}

\* the nodes of the graph: its keys and the nodes its edges lead to
NodesOf(g) ==
    {g.keys[i] : i \in 1..Len(g.keys)}
        \cup {n \in AllNodes : \E m \in AllNodes : HasEdge(g, m, n)}

\* C26: after any sequence of add_currency_pair calls the graph has exactly
\* two nodes for each distinct currency added, its Bid node and its Ask node,
\* and each of them is a key of the graph
C26_TwoNodesPerCurrency ==
    cg.pc = "idle" =>
    LET g == cg.graph IN
    /\ NodesOf(g) = {NodeKey(c, s) : c \in CurrenciesOf(g), s \in {BID_KEY, ASK_KEY}}
    /\ Cardinality(NodesOf(g)) = 2 * Cardinality(CurrenciesOf(g))
    /\ \A n \in NodesOf(g) : InSeq(n, g.keys)
    /\ NoRepeat(g.keys)

\* three pairs over four currencies were added
C26_Witness ==
    /\ cg.pc = "idle"
    /\ cg.source = "api"
    /\ Len(cg.graph.currency_pairs) = MaxPairs
    /\ Cardinality(CurrenciesOf(cg.graph)) = 4
    /\ Cardinality(NodesOf(cg.graph)) = 8

\* graph[a][b], for an edge of the graph
Weight(g, a, b) ==
    LET i == CHOOSE j \in 1..Len(g.edges[a]) : g.edges[a][j].to = b
    IN  g.edges[a][i].w

\* the last call of add_currency_pair added a pair the graph held already
ReAdded ==
    /\ cg.pc = "idle"
    /\ cg.added # NoAdd
    /\ InSeq([base |-> get_base(cg.added.product), quote |-> get_quote(cg.added.product)],
             cg.before.currency_pairs)

\* the four edges of the pair added last, as (from, to, weight)
EdgesAdded ==
    LET base == get_base(cg.added.product)
        quote == get_quote(cg.added.product)
    IN  {<<get_bid(quote), get_ask(base), ParseDecimal(cg.added.bid)>>,
         <<get_bid(base), get_ask(quote), DecDiv(DecOne, ParseDecimal(cg.added.ask))>>,
         <<get_ask(quote), get_bid(quote), DecOne>>,
         <<get_ask(base), get_bid(base), DecOne>>}

\* the four edges carry the weights of the last call and every other edge is
\* as it was before the call
Refreshed ==
    /\ \A t \in EdgesAdded : HasEdge(cg.graph, t[1], t[2])
                                /\ Weight(cg.graph, t[1], t[2]) = t[3]
    /\ \A a, b \in AllNodes :
          (\A t \in EdgesAdded : <<a, b>> # <<t[1], t[2]>>)
              => /\ HasEdge(cg.graph, a, b) <=> HasEdge(cg.before, a, b)
                 /\ HasEdge(cg.graph, a, b)
                        => Weight(cg.graph, a, b) = Weight(cg.before, a, b)

\* the pair was held with the very weights of the last call
SameQuotes ==
    \A t \in EdgesAdded : HasEdge(cg.before, t[1], t[2])
                             /\ Weight(cg.before, t[1], t[2]) = t[3]

\* C27: adding a pair again refreshes its four edges and leaves every other
\* edge alone, and adding it again with the same bid and ask leaves the
\* graph as it was: nodes, edges and the recorded list of pairs
C27_ReAddRefreshes ==
    ReAdded => /\ Refreshed
               /\ SameQuotes => cg.graph = cg.before

\* the part of C27 that holds: the edges are refreshed, and with the same bid
\* and ask the nodes and the edges are as they were
ReAddKeepsEdges ==
    ReAdded => /\ Refreshed
               /\ SameQuotes => /\ cg.graph.edges = cg.before.edges
                                /\ cg.graph.keys = cg.before.keys

\* a pair was added again with other quotes
ReAddedWithNewQuotes == ReAdded /\ ~SameQuotes /\ Refreshed

\* C28: every edge of a graph built by _build_currency_graph has a weight
\* above zero, and no search on such a graph divides by zero
C28_PositiveWeights ==
    cg.source = "ticker" =>
        /\ \A n \in AllNodes : \A i \in 1..Len(cg.graph.edges[n]) :
              DecLess(DecZero, cg.graph.edges[n][i].w)
        /\ cg.exc # "DivisionByZero"

\* the search has divided by the weight zero of an edge built from a ticker
DividedByZero ==
    cg.source = "ticker" /\ cg.pc = "raised" /\ cg.exc = "DivisionByZero"

\* find_arbitrage_path has returned a path of the graph and the signal was
\* taken from it
Signalled ==
    /\ cg.pc = "signalled"
    /\ cg.source = "api"
    /\ WellFormed(cg.graph, cg.start, cg.target, cg.path)

\* the path holds a Bid node before its last node
HasBidNode == \E i \in 1..(Len(cg.path) - 1) : is_bid(cg.path[i])

\* the index of the first Bid node of the path, its last node left aside
FirstBid ==
    CHOOSE i \in 1..(Len(cg.path) - 1) :
        is_bid(cg.path[i]) /\ \A j \in 1..(i - 1) : ~is_bid(cg.path[j])

Matches(pair, i) ==
    /\ pair.base \in {get_currency(cg.path[i]), get_currency(cg.path[i + 1])}
    /\ pair.quote \in {get_currency(cg.path[i]), get_currency(cg.path[i + 1])}

\* the first pair added that matches the two nodes at i and i + 1
FirstPair(i) ==
    LET pairs == cg.graph.currency_pairs
        k == CHOOSE m \in 1..Len(pairs) :
                Matches(pairs[m], i) /\ \A n \in 1..(m - 1) : ~Matches(pairs[n], i)
    IN  pairs[k]

\* the search was one of the engine: from the Bid node of a currency to the
\* Ask node of the target currency
EngineSearch == is_bid(cg.start) /\ cg.target = get_ask(TARGET_NODE)

\* C29: the signal is taken from the first Bid node of the path and the node
\* after it, on the first pair added that holds both currencies: Buy when
\* the quote of the pair is the currency of the Bid node, Sell when its base
\* is; for a path of the engine the product is one of the pairs added and
\* the edge from the first node of the path to the second is the edge of
\* that side of the product
C29_NextSignal ==
    (Signalled /\ HasBidNode) =>
        LET pair == FirstPair(FirstBid)
            currency == get_currency(cg.path[FirstBid])
        IN  /\ \E m \in 1..Len(cg.graph.currency_pairs) :
                  Matches(cg.graph.currency_pairs[m], FirstBid)
            /\ cg.signal.exc = "none"
            /\ cg.signal.product = PairName(pair.base, pair.quote)
            /\ pair.quote = currency => cg.signal.signal = BUY_ORDER
            /\ (pair.quote # currency /\ pair.base = currency)
                    => cg.signal.signal = SELL_ORDER
            /\ cg.signal.signal \in {BUY_ORDER, SELL_ORDER}
            /\ EngineSearch =>
                  /\ InSeq([base |-> get_base(cg.signal.product),
                            quote |-> get_quote(cg.signal.product)],
                           cg.graph.currency_pairs)
                  /\ cg.signal.signal = BUY_ORDER =>
                        /\ cg.path[1] = get_bid(get_quote(cg.signal.product))
                        /\ cg.path[2] = get_ask(get_base(cg.signal.product))
                  /\ cg.signal.signal = SELL_ORDER =>
                        /\ cg.path[1] = get_bid(get_base(cg.signal.product))
                        /\ cg.path[2] = get_ask(get_quote(cg.signal.product))

\* a Sell was taken from a path that begins at an Ask node, on a graph that
\* holds a pair and its reverse, the reverse added first
C29_Witness ==
    /\ Signalled
    /\ HasBidNode
    /\ FirstBid = 2
    /\ cg.signal.signal = SELL_ORDER
    /\ cg.signal.product = "BTC-ETH"
    /\ InSeq([base |-> "ETH", quote |-> "BTC"], cg.graph.currency_pairs)

\* C30: a path that yields no trade is no error: when the signal taken from
\* the returned path is neither Buy nor Sell, no exception leaves
\* _get_trade_signal
C30_NoTradeIsNoOp ==
    (cg.pc = "signalled" /\ cg.source = "api"
        /\ cg.signal.signal \notin {BUY_ORDER, SELL_ORDER})
            => cg.exc = "none"

\* a search of the engine did not reach the target and the signal taken from
\* the list [-1, target] raised AttributeError
UnreachedTargetRaised ==
    /\ cg.pc = "signalled"
    /\ cg.source = "api"
    /\ EngineSearch
    /\ cg.path = <<NoParent, cg.target>>
    /\ cg.exc = "AttributeError"

\* get_next_signal returned False for a path without a matching pair and
\* line 207 raised TypeError
FalseSignalRaised ==
    /\ cg.pc = "signalled"
    /\ cg.source = "api"
    /\ WellFormed(cg.graph, cg.start, cg.target, cg.path)
    /\ get_next_signal(cg.graph, cg.path) =
           [exc |-> "none", signal |-> 0, product |-> "None-None"]
    /\ cg.exc = "TypeError"

\* the search followed statement by statement returns and raises what the
\* operator find_arbitrage_path of the engine model does
SearchAgrees ==
    /\ cg.pc = "done" =>
          find_arbitrage_path(cg.graph, cg.start, cg.target) =
              [exc |-> "none", path |-> cg.path, distance |-> cg.found]
    /\ (cg.pc = "raised" /\ cg.exc = "DivisionByZero") =>
          \A target \in AllNodes :
              InSeq(target, cg.graph.keys) =>
                  find_arbitrage_path(cg.graph, cg.start, target).exc = cg.exc
    /\ (cg.pc = "raised" /\ cg.exc = "KeyError") =>
          find_arbitrage_path(cg.graph, cg.start,
              IF cg.target = NoParent THEN cg.start ELSE cg.target).exc = cg.exc

-----------------------------------------------------------------------------
(* Properties of the size of an order and of the methods that read the     *)
(* snapshot                                                                *)

\* the sells the iteration submitted
SellsSubmitted == {i \in 1..Len(last.calls) : last.calls[i].op = "sell"}

SellSubmitted ==
    \E i \in SellsSubmitted :
        get_currency_balance(accounts, get_base(last.calls[i].product),
                             FALSE).type = "float"

\* the price of the order recorded for the held currency as the provider
\* gave it, None without a recorded order or without a price in it
RecordedPrice ==
    IF Recorded(orders, current_node) /\ orders.map[current_node].price # Missing
    THEN [type |-> "str", val |-> DecZero, text |-> orders.map[current_node].price]
    ELSE NoPrice

\* the ticker's text for the side, Missing when the product or the side is absent
Quoted(product, side) ==
    IF product \in DOMAIN ticker THEN ticker[product][side] ELSE Missing

DecimalOf(text) == [type |-> "Decimal", val |-> ParseDecimal(text), text |-> text]

MarketPriceCalled == unit.op = "_get_market_price"

\* C32: _get_market_price returns the ticker's bid for a Buy and its ask for a
\* Sell; when that ticker value is absent or does not parse, or the signal is
\* neither, it returns the price of the order recorded for the held currency,
\* None when none is recorded
C32_MarketPrice ==
    MarketPriceCalled =>
        LET side == IF unit.signal = BUY_ORDER THEN "bid" ELSE "ask"
            text == Quoted(unit.product, side)
        IN  IF unit.signal \in {BUY_ORDER, SELL_ORDER} /\ text \in DecimalTexts
            THEN unit.price = DecimalOf(text)
            ELSE /\ unit.price = RecordedPrice
                 /\ ~Recorded(orders, current_node) => unit.price.type = "None"

\* a Sell answered with an ask that differs from the bid
C32_Witness ==
    /\ MarketPriceCalled
    /\ unit.signal = SELL_ORDER
    /\ unit.price.type = "Decimal"
    /\ unit.price.text = Quoted(unit.product, "ask")
    /\ Quoted(unit.product, "ask") # Quoted(unit.product, "bid")

\* a Buy on a ticker without a bid answered with the recorded order's price
FellBackToRecordedPrice ==
    /\ MarketPriceCalled
    /\ unit.signal = BUY_ORDER
    /\ Quoted(unit.product, "bid") \notin DecimalTexts
    /\ unit.price.type = "str"

\* a signal that is neither Buy nor Sell answered with None
NoPriceReturned ==
    /\ MarketPriceCalled
    /\ unit.signal \notin {BUY_ORDER, SELL_ORDER}
    /\ unit.price.type = "None"

BalanceCalled == unit.op = "get_currency_balance"

\* the accounts of the currency asked for, and those of them whose balance
\* converts to a float
OfCurrency == {i \in 1..Len(accounts) : accounts[i].currency = unit.currency}
Converting == {i \in OfCurrency : IsNumber(accounts[i].balance)}

Least(S) == CHOOSE i \in S : \A j \in S : i <= j

FloatOf(text) == [type |-> "float", val |-> ParseDecimal(text)]

\* C33: get_currency_balance returns the balance of the first account whose
\* currency is the one asked for, and None when no account has that currency
C33_FirstAccountOfCurrency ==
    BalanceCalled =>
        IF OfCurrency = {} THEN unit.balance = NoBalance
        ELSE /\ unit.balance.type = "float"
             /\ IsNumber(accounts[Least(OfCurrency)].balance)
             /\ unit.balance = FloatOf(accounts[Least(OfCurrency)].balance)

\* C33 as the code has it: the float of the balance of the first account whose
\* currency is the one asked for and whose balance converts, None without such
\* an account; the snapshot is left as it was
FirstConvertingAccount ==
    BalanceCalled =>
        IF Converting = {} THEN unit.balance = NoBalance
        ELSE unit.balance = FloatOf(accounts[Least(Converting)].balance)

C33_FirstConvertingAccount ==
    /\ []FirstConvertingAccount
    /\ [][unit'.op = "get_currency_balance" =>
            /\ accounts' = accounts
            /\ ticker' = ticker
            /\ orders' = orders]_vars

\* two accounts of the currency with differing balances that convert: the
\* first one's is returned
C33_Witness ==
    /\ BalanceCalled
    /\ \E i, j \in Converting : accounts[i].balance # accounts[j].balance
    /\ unit.balance.type = "float"

\* an account of the currency whose balance does not convert is passed over
PassedOver ==
    /\ BalanceCalled
    /\ OfCurrency # {}
    /\ Least(OfCurrency) \notin Converting
    /\ unit.balance.type = "float"

\* the keys of the graph that the search has not visited
Unvisited == {cg.graph.keys[i] : i \in 1..Len(cg.graph.keys)} \ cg.visited

\* C34: find_arbitrage_path terminates: every iteration of its loop marks one
\* node that was not visited, a node once visited stays visited (so the edges
\* of no node are gone through twice), the loop is left only when no unvisited
\* node has a positive distance, and a search that has begun comes to its end
C34_Terminates ==
    /\ [][(cg.pc = "while" /\ cg'.pc = "edges")
            => /\ cg.node \notin cg.visited
               /\ cg'.visited = cg.visited \cup {cg.node}
               /\ cg'.node = cg.node]_vars
    /\ [][(Searching /\ cg'.pc \in {"while", "edges"})
            => cg.visited \subseteq cg'.visited]_vars
    /\ [][(cg.pc = "while" /\ cg'.pc \in {"done", "raised"})
            => \A k \in Unvisited : ~DecLess(DecZero, cg.distance[k])]_vars
    /\ (Searching ~> ~Searching)

\* the loop is about to be left with every node of a graph of three
\* currencies visited
C34_Witness ==
    /\ cg.pc = "while"
    /\ cg.node \in cg.visited
    /\ Len(cg.graph.keys) = 6
    /\ Unvisited = {}

\* the loop is about to be left with nodes that were never reached
LeftWithUnvisited ==
    /\ cg.pc = "while"
    /\ cg.node \in cg.visited
    /\ Unvisited # {}

\* get_order answered the iteration with a payload that does not end the
\* order's tracking
AnsweredNonTerminal ==
    /\ HasQuery(last.calls)
    /\ last.track \in {"cleared", "updated"}
    /\ ~ReportedTerminal(last.payload)

\* C36: when get_order answers with a payload that is no error payload and
\* reports the order neither cancelled, rejected nor done and settled,
\* _track_order records the payload in place of the order and returns True:
\* the iteration reconciles and submits nothing, and the payload (an order
\* done but not settled too) is still recorded when the iteration ends
C36_NonTerminalAnswerIsTracked ==
    AnsweredNonTerminal
        => /\ last.track = "updated"
           /\ EntryOf(last.ordersTracked, last.node) = last.payload
           /\ last.step = "update"
           /\ ~HasSubmission(last.calls)
           /\ EntryOf(orders, last.node) = last.payload

\* an order done but not settled was answered while the spread, with a
\* stubbed balance, was above the threshold
C36_Witness ==
    /\ AnsweredNonTerminal
    /\ last.payload.status = "done"
    /\ last.payload.settled = "false"
    /\ last.payload # EntryOf(last.ordersIn, last.node)
    /\ stubbed
    /\ AboveThreshold(last)

\* the positions, in key order, of the unvisited keys of positive distance,
\* and those of them that hold the largest distance
Candidates ==
    {i \in 1..Len(cg.graph.keys) :
        /\ cg.graph.keys[i] \notin cg.visited
        /\ DecLess(DecZero, cg.distance[cg.graph.keys[i]])}

Largest ==
    {i \in Candidates :
        \A j \in Candidates :
            ~DecLess(cg.distance[cg.graph.keys[i]], cg.distance[cg.graph.keys[j]])}

\* C37: relaxing an edge changes the distance and the parent of its end node
\* only, and only to a candidate strictly larger than the distance held (on a
\* tie the earlier parent stays); the node selected next is the first
\* unvisited key, in key order, that holds the largest positive distance, and
\* the start when there is none
C37_StrictComparisons ==
    /\ [][(cg.pc = "edges" /\ cg'.pc = "edges" /\ cg'.e = cg.e + 1)
            => LET edge == cg.graph.edges[cg.node][cg.e]
                   held == cg.distance[edge.to]
               IN  /\ \A n \in AllNodes \ {edge.to} :
                          /\ cg'.distance[n] = cg.distance[n]
                          /\ cg'.parents[n] = cg.parents[n]
                   /\ (cg'.distance[edge.to] # held
                          \/ cg'.parents[edge.to] # cg.parents[edge.to])
                        => /\ DecLess(held, cg'.distance[edge.to])
                           /\ cg'.distance[edge.to] =
                                  DecDiv(cg.distance[cg.node], edge.w)
                           /\ cg'.parents[edge.to] = cg.node
                   /\ (~cg'.relaxed.guarded
                          /\ DecLess(held, DecDiv(cg.distance[cg.node], edge.w)))
                        => cg'.parents[edge.to] = cg.node]_vars
    /\ [][(cg.pc = "edges" /\ cg'.pc = "while")
            => cg'.node = IF Candidates = {} THEN cg.start
                          ELSE cg.graph.keys[Least(Largest)]]_vars

\* an edge whose candidate equals the distance its end node holds has left
\* the earlier parent in place
C37_Witness ==
    /\ cg.pc = "edges"
    /\ cg.relaxed # NoRelax
    /\ ~cg.relaxed.guarded
    /\ cg.distance[RelaxedEdge.to] = DecDiv(cg.distance[cg.node], RelaxedEdge.w)
    /\ cg.parents[RelaxedEdge.to] # cg.node
    /\ cg.parents[RelaxedEdge.to] # NoParent

\* the node selected shares the largest distance with a later unvisited key
SelectedFirstOfEqual ==
    /\ cg.pc = "while"
    /\ cg.node \notin cg.visited
    /\ \E i, j \in Largest :
          /\ i < j
          /\ cg.graph.keys[i] = cg.node

\* the value obtained along the first n nodes of the path: 1 divided in turn
\* by the weight of each edge
RECURSIVE ValueAlong(_, _, _)
ValueAlong(g, path, n) ==
    IF n <= 1 THEN DecOne
    ELSE DecDiv(ValueAlong(g, path, n - 1), Weight(g, path[n - 1], path[n]))

\* C38: the distance find_arbitrage_path returns is the value obtained along
\* the path it returns
C38_DistanceIsValueOfPath ==
    (Returned /\ WellFormed(cg.graph, cg.start, cg.target, cg.path))
        => cg.found = ValueAlong(cg.graph, cg.path, Len(cg.path))

\* a search of the engine returned a path worth more than the distance
\* returned with it
EnginePathWorthMore ==
    /\ Returned
    /\ EngineSearch
    /\ WellFormed(cg.graph, cg.start, cg.target, cg.path)
    /\ DecLess(cg.found, ValueAlong(cg.graph, cg.path, Len(cg.path)))

\* a path worth less than the distance returned with it
PathWorthLess ==
    /\ Returned
    /\ WellFormed(cg.graph, cg.start, cg.target, cg.path)
    /\ DecLess(ValueAlong(cg.graph, cg.path, Len(cg.path)), cg.found)

\* the pass d reached _cancel_order: its order was old enough and differed
\* from the derived product or the market price
DecidedToCancel(d) == d.step = "update" /\ d.act \in {"noid", "ok", "fail", "escaped"}

CancelsOf(cs) == {i \in 1..Len(cs) : cs[i].op = "cancel_order"}
QueriesOf(cs) == {i \in 1..Len(cs) : cs[i].op = "get_order"}

\* C39: a pass that decides to cancel calls cancel_order exactly once, with
\* the id its status query was made with
C39_CancelsTrackedOrderOnce ==
    DecidedToCancel(last) =>
        /\ Cardinality(CancelsOf(last.calls)) = 1
        /\ \A i \in CancelsOf(last.calls) : \A j \in QueriesOf(last.calls) :
               last.calls[i].id = last.calls[j].id

\* where cancel_order is called it is called once with the id of the query:
\* the payload recorded by _track_order holds the key order_id
CancelledWithTrackedId ==
    /\ DecidedToCancel(last)
    /\ Cardinality(CancelsOf(last.calls)) = 1
    /\ \A i \in CancelsOf(last.calls) : \A j \in QueriesOf(last.calls) :
           last.calls[i].id = last.calls[j].id
    /\ EntryOf(last.ordersTracked, last.node).order_id # Missing

\* whenever the call is made it is made once with the id of the query
CancelCallsUseTrackedId ==
    HasCancel(last.calls) =>
        /\ Cardinality(CancelsOf(last.calls)) = 1
        /\ \A i \in CancelsOf(last.calls) : \A j \in QueriesOf(last.calls) :
               last.calls[i].id = last.calls[j].id

\* a search of the engine, from the Bid node of the held currency, that has
\* no route to take: it returned without reaching the Ask node of the target
\* currency, or it raised because the held currency has no node in the graph
NoRoute ==
    /\ cg.source = "api"
    /\ is_bid(cg.start)
    /\ \/ /\ cg.pc \in {"done", "signalled"}
          /\ cg.target = get_ask(TARGET_NODE)
          /\ ~Reachable(cg.graph, cg.start, cg.target)
       \/ /\ cg.pc = "raised"
          /\ ~InSeq(cg.start, cg.graph.keys)

\* C40: when the target cannot be reached or the held currency has no node,
\* the distance reported is 0 and no exception is raised, neither by the
\* search nor when the signal is taken from its result
C40_NoRouteEndsQuietly ==
    NoRoute => (cg.exc = "none" /\ cg.found = DecZero)

\* the search returned [-1, target] with distance 0 for a target it did not
\* reach
UnreachedReportsZero ==
    /\ NoRoute
    /\ cg.pc = "done"
    /\ cg.path = <<NoParent, cg.target>>
    /\ cg.found = DecZero

\* the search raised KeyError for a held currency without a node
HeldCurrencyWithoutNodeRaised ==
    /\ NoRoute
    /\ cg.pc = "raised"
    /\ cg.exc = "KeyError"
    /\ cg.graph.keys # <<>>

-----------------------------------------------------------------------------
(* Properties of the life of an order *)

\* the provider reports the order recorded for USD as rejected, cancelled or
\* done and settled
EndReported ==
    /\ Recorded(orders, "USD")
    /\ provider.kind = "order"
    /\ ~provider.message
    /\ ReportedTerminal(provider)
    /\ EntryOf(orders, "USD").id = provider.id

\* the order is absent, or the pass just made has cleared it (and may have
\* recorded a new one in its place)
EndedOrderGone == ~Recorded(orders, "USD") \/ last.track = "cleared"

PlacedAfterEnd ==
    /\ last.track = "cleared"
    /\ last.step = "place"
    /\ last.act = "recorded"
    /\ Recorded(orders, "USD")

\* without the stub of the balance no pass submits an order after the end of
\* the old one
NoPlacingWithoutStub == ~stubbed => ~HasSubmission(last.calls)

\* the status query raised the ConnectionError of requests while the provider
\* reported the end of the order; next was left and the order is still
\* recorded
EndReportedAndCrashed ==
    /\ EndReported
    /\ pc = "crashed"
    /\ exc = RequestsError

=============================================================================
